---- MODULE Spec2Model ----
\* TrikHub cross-runtime worker channel.
\*   Part 1: PythonWorker, the gateway-side subprocess manager
\*           (packages/js/gateway/src/python-worker.ts) and the JSON-RPC framing
\*           it uses (packages/js/gateway/src/worker-protocol.ts).
\*   Part 2: JavaScriptWorker, the worker-side read loop and storage proxy
\*           (packages/js/worker/src/worker.ts).
\*   Part 3: the storage providers, SqliteStorageContext and
\*           InMemoryStorageProvider (packages/js/gateway/src/python-worker.ts).
\*   Part 4: the agentDataSchema security checks of the manifest validator
\*           and of the MCP validate tool (packages/js/mcp/src/tools/validate.ts).
\*   Part 5: the JSON-RPC messages as objects and their round trip through
\*           serializeMessage and parseMessage (worker-protocol.ts).
\*   Part 6: fillTemplate, the template rendering of the LangChain adapter
\*           (packages/js/gateway/src/langchain/adapter.ts).
\*   Part 7: validateManifest, the structural validation of a manifest
\*           (@trikhub/manifest), and validateTrikManifest, the MCP validate
\*           tool (packages/js/mcp/src/tools/validate.ts).
\*   Part 8: TrikLinter, with findManifestPath (packages/js/linter/src/cli.ts)
\*           and without it (packages/js/linter/src/linter.ts).
\*   Part 9: the passthrough path: the gateway's content store, the LangChain
\*           tool made by createToolFromDefinition and the LangGraphAgent that
\*           calls it (decisionNode, executeTrikNode, chat).
\*   Part 10: TrikServer, its lifecycle (initialize, start, stop), and the
\*           SkillLoader it loads the triks with (packages/js/server).
\*   Part 11: designSchema and designAction, the MCP design tools
\*           (packages/js/mcp/src/tools/design.ts).
\* A JavaScript event handler runs to completion together with the promise
\* continuations (microtasks) it triggers, so one action of the model is one
\* event-loop task: the handler plus every continuation it wakes.
EXTENDS Naturals, Integers, Sequences, FiniteSets, TLC

\* ---------------------------------------------------------------- bounds
NumInvokes == 2      \* invoke() calls issued by the gateway's callers
MaxOut == 1          \* lines in flight on the worker's stdout

MaxSent == 3         \* requests the gateway side writes to the JavaScript worker
MaxIn == 2           \* lines waiting on the JavaScript worker's stdin
MaxClock == 2        \* the clock of the storage providers runs from 0 to MaxClock

\* createRequest gives every request a fresh id (uuidv4): the model names the id
\* after the call that issues it, so that ids are distinct by construction
MaxId == NumInvokes + 2
Ids == 1..MaxId
HealthId == 1
ShutdownId == 2
InvokeId(c) == 2 + c
Callers == 1..NumInvokes
NoProc == 0
NoId == 0

\* ---------------------------------------------------------------- state
VARIABLES
  process,          \* PythonWorker.process: NoProc (null) or the child's handle
  isReady,          \* PythonWorker.isReady
  startupPromise,   \* PythonWorker.startupPromise: "null", or the promise's state
  startupTimer,     \* doStart's startupTimeout is armed
  pendingRequests,  \* keys of PythonWorker.pendingRequests (an entry's timer is armed while it is in the table)
  req,              \* per request id: its method and the state of sendRequest's promise
  callers,          \* the invoke() calls: position, request id, result
  sd,               \* the shutdown() call: position, request id
  child,            \* the spawned child process: none, running, failed (spawn error pending),
                    \* dead (exit event pending), exited, failedDone (spawn error reported)
  stdin,            \* request ids delivered to the child's stdin and not yet answered
  writeErr,         \* request ids whose stdin.write callback will report an error
  stdout,           \* lines written by the child and not yet read by the gateway
  last,             \* the events the last step emitted and the lines it sent to the child
  running,          \* JavaScriptWorker.running
  loop,             \* JavaScriptWorker.run: reading, handling (suspended in `await handleMessage`), stopped
  proxyPending,     \* keys of StorageProxy.pendingRequests
  trik,             \* the invoke in progress in the JavaScript worker: request id, phase
  jwIn,             \* lines on the JavaScript worker's stdin, not yet read
  jwOut,            \* responses the JavaScript worker has written to its stdout
  jwStorage,        \* storage.* requests written by the worker and not yet answered by the gateway side
  jwSent,           \* requests the gateway side has written to the JavaScript worker
  db,               \* the rows of the SQLite table `storage`
  mem,              \* InMemoryStorageProvider.storage: per trik, its entries
  now,              \* Date.now()
  stReplaced,       \* the last storage call was a set that wrote over an entry of another value and expiry
  schema,           \* an action's agentDataSchema
  scReport,         \* what each security check reported for it
  msg,              \* a message built by createRequest / createSuccessResponse / createErrorResponse
  wire,             \* the text serializeMessage made of it
  parsed,           \* what parseMessage made of that text
  tplIn,            \* fillTemplate's arguments: the template text and the agent data
  tplOut,           \* the text fillTemplate returned
  manifest,         \* the content of a manifest.json given to the validators
  mvReport,         \* what validateManifest and validateTrikManifest returned for it
  lintIn,           \* a trik directory and a linter configuration
  lintOut,          \* the linter method that was called on it and what it returned
  contentStore,     \* the gateway's content store: the passthrough payloads by receipt reference
  issued,           \* per receipt reference minted: the content stored under it
  deliveries,       \* per receipt reference: what each deliverContent(ref) found and returned, in order
  conversationHistory, \* LangGraphAgent.conversationHistory
  graph,            \* the state of the graph run of the chat() in progress
  lastPrompt,       \* the messages of the latest decisionModel.invoke
  turns,            \* chat() calls made
  options,          \* TrikServer.options: which sources are configured, lintOnLoad
  _state,           \* TrikServer._state
  skillLoader,      \* TrikServer.skillLoader: the instance it refers to, 0 for null
  gateway,          \* TrikServer.gateway: the instance it refers to, 0 for null
  fastify,          \* TrikServer.fastify: the instance it refers to, 0 for null
  loadResult,       \* TrikServer.loadResult
  created,          \* how many skill loaders, gateways and HTTP servers have been created
  calls,            \* the calls of initialize(), start() and stop(): where each one is
  loaded,           \* the triks loaded in the gateways, with their lint outcome
  designIn,         \* the field definitions given to designSchema / designAction
  designOut         \* the tool that was called on them and what it returned

gwVars == <<process, isReady, startupPromise, startupTimer, pendingRequests, req,
            callers, sd, child, stdin, writeErr, stdout, last>>
jwVars == <<running, loop, proxyPending, trik, jwIn, jwOut, jwStorage, jwSent>>
stVars == <<db, mem, now, stReplaced>>
scVars == <<schema, scReport>>
prVars == <<msg, wire, parsed>>
tpVars == <<tplIn, tplOut>>
mvVars == <<manifest, mvReport>>
ltVars == <<lintIn, lintOut>>
agVars == <<contentStore, issued, deliveries, conversationHistory, graph, lastPrompt, turns>>
tsVars == <<options, _state, skillLoader, gateway, fastify, loadResult, created, calls, loaded>>
dsVars == <<designIn, designOut>>
restVars == <<prVars, tpVars, mvVars, ltVars, agVars, tsVars, dsVars>>
vars == <<gwVars, jwVars, stVars, scVars, restVars>>
\* what the steps of one component leave alone
notGw == <<jwVars, stVars, scVars, restVars>>
notJw == <<gwVars, stVars, scVars, restVars>>
notSt == <<gwVars, jwVars, scVars, restVars>>
notSc == <<gwVars, jwVars, stVars, restVars>>
coreVars == <<gwVars, jwVars, stVars, scVars>>
notPr == <<coreVars, tpVars, mvVars, ltVars, agVars, tsVars, dsVars>>
notTp == <<coreVars, prVars, mvVars, ltVars, agVars, tsVars, dsVars>>
notMv == <<coreVars, prVars, tpVars, ltVars, agVars, tsVars, dsVars>>
notLt == <<coreVars, prVars, tpVars, mvVars, agVars, tsVars, dsVars>>
notAg == <<coreVars, prVars, tpVars, mvVars, ltVars, tsVars, dsVars>>
notTs == <<coreVars, prVars, tpVars, mvVars, ltVars, agVars, dsVars>>
notDs == <<coreVars, prVars, tpVars, mvVars, ltVars, agVars, tsVars>>

\* ---------------------------------------------------------------- worker-protocol.ts
StorageMethods == {"storage.get", "storage.set", "storage.delete",
                   "storage.list", "storage.getMany", "storage.setMany"}
STORAGE_ERROR == 1006

\* A line, by what the reader makes of it: text is "blank" for a line of white
\* space, "garbage" for text that is not a JSON object, "object" otherwise; ver
\* is the jsonrpc member; idk the type of the id member; method
\* is "none" when the member is absent; hasResult / hasError say whether the
\* members are present; status is the result's status member.
Line(text, ver, idk, id, method, hasResult, hasError, status) ==
  [text |-> text, ver |-> ver, idk |-> idk, id |-> id, method |-> method,
   hasResult |-> hasResult, hasError |-> hasError, status |-> status]
BlankLine == Line("blank", "none", "none", NoId, "none", FALSE, FALSE, "none")
GarbageLine == Line("garbage", "none", "none", NoId, "none", FALSE, FALSE, "none")

createSuccessResponse(id, status) == Line("object", "2.0", "str", id, "none", TRUE, FALSE, status)
createErrorResponse(id) == Line("object", "2.0", "str", id, "none", FALSE, TRUE, "none")

\* parseMessage: throws unless the text is a JSON object with jsonrpc "2.0" and a string id
parseMessage(line) == line.text = "object" /\ line.ver = "2.0" /\ line.idk = "str"
isRequest(m) == m.method # "none"
isResponse(m) == m.hasResult \/ m.hasError

\* ---------------------------------------------------------------- python-worker.ts
\* The manager's state as a record, so that a handler and the continuations it
\* wakes compose as functions; `last` starts empty for the task that begins.
Cur ==
  [process |-> process, isReady |-> isReady, startupPromise |-> startupPromise,
   startupTimer |-> startupTimer, pendingRequests |-> pendingRequests, req |-> req,
   callers |-> callers, sd |-> sd, child |-> child,
   stdin |-> stdin, writeErr |-> writeErr,
   last |-> [ev |-> {}, sent |-> {}]]

Commit(s) ==
  /\ process' = s.process
  /\ isReady' = s.isReady
  /\ startupPromise' = s.startupPromise
  /\ startupTimer' = s.startupTimer
  /\ pendingRequests' = s.pendingRequests
  /\ req' = s.req
  /\ callers' = s.callers
  /\ sd' = s.sd
  /\ child' = s.child
  /\ stdin' = s.stdin
  /\ writeErr' = s.writeErr
  /\ last' = s.last

\* kill(): SIGKILL the attached child, detach it, clear the ready flag. The
\* pending-request table, its timers and the readline listener are left alone.
kill(s) ==
  IF s.process # NoProc
  THEN [s EXCEPT !.child = IF @ = "running" THEN "dead" ELSE @,
                 !.process = NoProc,
                 !.isReady = FALSE]
  ELSE s

\* this.process?.stdin?.writable: a child is attached and its stdin stream has not
\* been destroyed (it is destroyed when the spawn failure or the exit is reported)
stdinWritable(s) == s.process # NoProc /\ s.child \in {"running", "failed", "dead"}

\* sendRequest(): reject at once when no writable stdin is attached; otherwise arm
\* the timer, enter the request in the table and write the line. A write to a
\* child that is no longer running reports its error in the write callback.
sendRequest(s, id, method) ==
  IF ~stdinWritable(s)
  THEN [s EXCEPT !.req[id] = [method |-> method, state |-> "stdinNA"]]
  ELSE [s EXCEPT !.req[id] = [method |-> method, state |-> "pending"],
                 !.pendingRequests = @ \cup {id},
                 !.stdin = IF s.child = "running" THEN @ \cup {id} ELSE @,
                 !.writeErr = IF s.child = "running" THEN @ ELSE @ \cup {id}]

\* sendLine(): write a line to the child when a writable stdin is attached
sendLine(s, line) ==
  IF stdinWritable(s)
  THEN [s EXCEPT !.last.sent = @ \cup {line}]
  ELSE s

callerDone(s, c, res) ==
  [s EXCEPT !.callers[c] = [pc |-> "done", id |-> @.id, res |-> res]]

\* invoke(), from createInvokeRequest on: send the request and await its response
invokeSend(s, c) ==
  LET id == InvokeId(c)
      s1 == sendRequest(s, id, "invoke")
  IN IF s1.req[id].state = "stdinNA"
     THEN callerDone([s1 EXCEPT !.callers[c].id = id], c, "stdinNA")
     ELSE [s1 EXCEPT !.callers[c] = [pc |-> "awaitResp", id |-> id, res |-> "none"]]

\* the invoke() calls suspended in `await this.start()` resume, in call order
RECURSIVE wakeCallers(_, _, _)
wakeCallers(s, c, ok) ==
  IF c > NumInvokes THEN s
  ELSE wakeCallers(IF s.callers[c].pc = "awaitStart"
                   THEN (IF ok THEN invokeSend(s, c) ELSE callerDone(s, c, "startFailed"))
                   ELSE s,
                   c + 1, ok)

\* resolve() / reject() of doStart's promise: the first call settles it
settleStartup(s, ok) ==
  IF s.startupPromise # "pending" THEN s
  ELSE wakeCallers([s EXCEPT !.startupPromise = IF ok THEN "resolved" ELSE "rejected"], 1, ok)

\* doStart(): the .then / .catch attached to the health request
healthContinuation(s, out) ==
  LET s1 == [s EXCEPT !.startupTimer = FALSE]
  IN IF out = "ok"
     THEN settleStartup([s1 EXCEPT !.isReady = TRUE, !.last.ev = @ \cup {"ready"}], TRUE)
     ELSE settleStartup(s1, FALSE)

\* invoke(): after `await this.sendRequest(...)`
invokeContinuation(s, id, out) ==
  LET res == CASE out \in {"ok", "badStatus"} -> "ok"
               [] out = "error" -> "invokeFailed"
               [] OTHER -> out
  IN [s EXCEPT !.callers = [c \in Callers |->
        IF s.callers[c].pc = "awaitResp" /\ s.callers[c].id = id
        THEN [pc |-> "done", id |-> id, res |-> res]
        ELSE s.callers[c]]]

\* shutdown(): after the awaited shutdown request, whatever its outcome
shutdownContinuation(s) ==
  [kill(s) EXCEPT !.sd.pc = "returned"]

\* resolve() / reject() of a request's promise and the continuation it wakes;
\* a promise that is already settled ignores the call
settle(s, id, out) ==
  IF s.req[id].state # "pending" THEN s
  ELSE LET s1 == [s EXCEPT !.req[id].state = out]
       IN CASE s.req[id].method = "health" -> healthContinuation(s1, out)
            [] s.req[id].method = "invoke" -> invokeContinuation(s1, id, out)
            [] s.req[id].method = "shutdown" -> shutdownContinuation(s1)
            [] OTHER -> s1

Min(S) == CHOOSE x \in S : \A y \in S : x <= y

\* (changed) an exit handler that, like kill(), leaves the table alone
exitHandlerKeepsTable(s) ==
  [s EXCEPT !.isReady = FALSE, !.process = NoProc, !.child = "exited",
            !.last.ev = @ \cup {"exit"}]

\* the exit handler's loop over the table: clear the timer, reject, delete
RECURSIVE rejectAll(_, _)
rejectAll(s, ids) ==
  IF ids = {} THEN s
  ELSE LET id == Min(ids)
       IN rejectAll(settle([s EXCEPT !.pendingRequests = @ \ {id}], id, "exit"),
                    ids \ {id})

\* process.on('exit')
exitHandler(s) ==
  LET s1 == [s EXCEPT !.isReady = FALSE, !.process = NoProc,
                      !.child = "exited"]
      s2 == rejectAll(s1, s1.pendingRequests)
  IN [s2 EXCEPT !.last.ev = @ \cup {"exit"}]

\* process.on('error'): the spawn failed
errorHandler(s) ==
  settleStartup([s EXCEPT !.startupTimer = FALSE, !.child = "failedDone",
                          !.last.ev = @ \cup {"error"}], FALSE)

\* (changed) a deadline timer that deletes the entry and forgets to reject
requestTimeoutOnlyDeletes(s, id) ==
  [s EXCEPT !.pendingRequests = @ \ {id}]

\* a request's deadline timer
requestTimeout(s, id) ==
  settle([s EXCEPT !.pendingRequests = @ \ {id}], id, "timeout")

\* the stdin.write callback reporting an error
writeCallback(s, id) ==
  settle([s EXCEPT !.writeErr = @ \ {id},
                   !.pendingRequests = @ \ {id}], id, "writeError")

\* doStart's startupTimeout
startupTimeout(s) ==
  settleStartup(kill([s EXCEPT !.startupTimer = FALSE]), FALSE)

\* doStart(): arm the startup deadline, spawn, attach the handlers, send health
doStart(s, spawnOk) ==
  LET id == HealthId
      s1 == [s EXCEPT !.startupTimer = TRUE, !.process = 1,
                      !.child = IF spawnOk THEN "running" ELSE "failed",
                      !.startupPromise = "pending"]
      s2 == sendRequest(s1, id, "health")
  IN IF s2.req[id].state = "stdinNA" THEN healthContinuation(s2, "stdinNA") ELSE s2

\* start(): throws when a process is attached
startThrows(s) == s.process # NoProc
\* start(): otherwise returns the startup promise, creating it on the first call
start(s, spawnOk) == IF s.startupPromise # "null" THEN s ELSE doStart(s, spawnOk)

\* invoke()
invoke(s, c, spawnOk) ==
  IF s.isReady THEN invokeSend(s, c)
  ELSE IF startThrows(s) THEN callerDone(s, c, "alreadyStarted")
  ELSE LET s1 == start(s, spawnOk)
       IN CASE s1.startupPromise = "pending" -> [s1 EXCEPT !.callers[c].pc = "awaitStart"]
            [] s1.startupPromise = "resolved" -> invokeSend(s1, c)
            [] OTHER -> callerDone(s1, c, "startFailed")

\* shutdown()
shutdown(s) ==
  IF s.process = NoProc THEN [s EXCEPT !.sd.pc = "returned"]
  ELSE LET id == ShutdownId
           s1 == sendRequest([s EXCEPT !.sd = [pc |-> "awaitResp", id |-> id]],
                             id, "shutdown")
       IN IF s1.req[id].state = "stdinNA" THEN shutdownContinuation(s1) ELSE s1

\* what a response line settles its request with
responseOutcome(m) ==
  IF m.hasError THEN "error" ELSE IF m.status = "ok" THEN "ok" ELSE "badStatus"

\* handleWorkerRequest(): an async function, so what it throws is a rejected
\* promise nobody handles, not an exception in handleLine
handleWorkerRequest(s, m) ==
  IF m.method = "none"
  THEN [s EXCEPT !.last.ev = @ \cup {"unhandled-rejection"}]
  ELSE IF m.method \in StorageMethods
  THEN sendLine([s EXCEPT !.last.ev = @ \cup {"storage-request"}],
                [id |-> m.id, kind |-> "error", code |-> STORAGE_ERROR])
  ELSE s

\* handleLine()
handleLine(s, line) ==
  IF line.text = "blank" THEN s
  ELSE IF ~parseMessage(line)
  THEN [s EXCEPT !.last.ev = @ \cup {"parse-error"}]
  ELSE IF isResponse(line)
  THEN IF line.id \in s.pendingRequests
       THEN settle([s EXCEPT !.pendingRequests = @ \ {line.id}], line.id, responseOutcome(line))
       ELSE s
  ELSE handleWorkerRequest(s, line)

\* ---------------------------------------------------------------- the child process
WorkerReqId == MaxId + 1      \* the id of a request the worker itself issues

\* lines that do not conform, and a request the gateway does not know
JunkLines ==
  {BlankLine, GarbageLine,
   Line("object", "1.0", "str", WorkerReqId, "other", FALSE, FALSE, "none"),       \* wrong version
   Line("object", "2.0", "num", NoId, "none", TRUE, FALSE, "ok"),                  \* numeric id
   Line("object", "2.0", "str", WorkerReqId, "none", FALSE, FALSE, "none"),        \* neither method nor result/error
   Line("object", "2.0", "str", WorkerReqId, "other", FALSE, FALSE, "none")}       \* unknown method

\* the storage.* requests a trik issues while the worker runs an invoke
StorageRequestLines ==
  {Line("object", "2.0", "str", WorkerReqId, m, FALSE, FALSE, "none") : m \in StorageMethods}

\* what a worker may answer a request with: a result, an error, or (not
\* conforming) both; only a health result has a status that matters
ResponseLines(id) ==
  {createSuccessResponse(id, "ok"), createErrorResponse(id),
   Line("object", "2.0", "str", id, "none", TRUE, TRUE, "ok")}
  \cup (IF req[id].method = "health" THEN {createSuccessResponse(id, "error")} ELSE {})

GwInit ==
  /\ process = NoProc
  /\ isReady = FALSE
  /\ startupPromise = "null"
  /\ startupTimer = FALSE
  /\ pendingRequests = {}
  /\ req = [i \in Ids |-> [method |-> "none", state |-> "none"]]
  /\ callers = [c \in Callers |-> [pc |-> "idle", id |-> NoId, res |-> "none"]]
  /\ sd = [pc |-> "idle", id |-> NoId]
  /\ child = "none"
  /\ stdin = {}
  /\ writeErr = {}
  /\ stdout = <<>>
  /\ last = Cur.last

\* a caller calls invoke() (the calls are numbered in the order they are made);
\* the spawn it may cause succeeds or fails
InvokeCall(c) ==
  /\ callers[c].pc = "idle"
  /\ \A d \in Callers : d < c => callers[d].pc # "idle"
  /\ \E spawnOk \in BOOLEAN :
       /\ (spawnOk = FALSE) => (~isReady /\ process = NoProc /\ startupPromise = "null")
       /\ Commit(invoke(Cur, c, spawnOk))
  /\ UNCHANGED stdout
  /\ UNCHANGED notGw

\* a caller calls shutdown()
ShutdownCall ==
  /\ sd.pc = "idle"
  /\ Commit(shutdown(Cur))
  /\ UNCHANGED stdout
  /\ UNCHANGED notGw

\* a caller calls kill()
KillCall ==
  /\ process # NoProc
  /\ Commit(kill(Cur))
  /\ UNCHANGED stdout
  /\ UNCHANGED notGw

\* readline delivers the next line of the child's stdout
HandleLine ==
  /\ stdout # <<>>
  /\ Commit(handleLine(Cur, Head(stdout)))
  /\ stdout' = Tail(stdout)
  /\ UNCHANGED notGw

\* the deadline of a pending request expires
RequestTimeout(id) ==
  /\ id \in pendingRequests
  /\ Commit(requestTimeout(Cur, id))
  /\ UNCHANGED stdout
  /\ UNCHANGED notGw

\* the startup deadline expires
StartupTimeout ==
  /\ startupTimer
  /\ Commit(startupTimeout(Cur))
  /\ UNCHANGED stdout
  /\ UNCHANGED notGw

\* a failed write reports its error
WriteError(id) ==
  /\ id \in writeErr
  /\ Commit(writeCallback(Cur, id))
  /\ UNCHANGED stdout
  /\ UNCHANGED notGw

\* the child object emits 'exit'
ExitEvent ==
  /\ child = "dead"
  /\ Commit(exitHandler(Cur))
  /\ UNCHANGED stdout
  /\ UNCHANGED notGw

\* the child object emits 'error' (the spawn failed)
SpawnError ==
  /\ child = "failed"
  /\ Commit(errorHandler(Cur))
  /\ UNCHANGED stdout
  /\ UNCHANGED notGw

\* the worker answers a request it has read
WorkerRespond(id) ==
  /\ child = "running"
  /\ id \in stdin
  /\ Len(stdout) < MaxOut
  /\ \E l \in ResponseLines(id) : stdout' = Append(stdout, l)
  /\ stdin' = stdin \ {id}
  /\ last' = Cur.last
  /\ UNCHANGED <<process, isReady, startupPromise, startupTimer, pendingRequests, req,
                 callers, sd, child, writeErr>>
  /\ UNCHANGED notGw

\* the worker writes a line of its own: a storage request of the trik it is
\* running, or a line that does not conform
WorkerEmit ==
  /\ child = "running"
  /\ Len(stdout) < MaxOut
  /\ \E l \in JunkLines \cup (IF \E id \in stdin : req[id].method = "invoke"
                              THEN StorageRequestLines ELSE {}) :
       stdout' = Append(stdout, l)
  /\ last' = Cur.last
  /\ UNCHANGED <<process, isReady, startupPromise, startupTimer, pendingRequests, req,
                 callers, sd, child, stdin, writeErr>>
  /\ UNCHANGED notGw

\* the worker process ends by itself (crash, or exit after a shutdown request)
WorkerDie ==
  /\ child = "running"
  /\ child' = "dead"
  /\ last' = Cur.last
  /\ UNCHANGED <<process, isReady, startupPromise, startupTimer, pendingRequests, req,
                 callers, sd, stdin, writeErr, stdout>>
  /\ UNCHANGED notGw

Next ==
  \/ \E c \in Callers : InvokeCall(c)
  \/ ShutdownCall
  \/ KillCall
  \/ HandleLine
  \/ \E id \in Ids : RequestTimeout(id)
  \/ StartupTimeout
  \/ \E id \in Ids : WriteError(id)
  \/ ExitEvent
  \/ SpawnError
  \/ \E id \in Ids : WorkerRespond(id)
  \/ WorkerEmit
  \/ WorkerDie

\* ---------------------------------------------------------------- worker.ts
PARSE_ERROR == 0 - 32700
METHOD_NOT_FOUND == 0 - 32601
INTERNAL_ERROR == 0 - 32603
TRIK_NOT_FOUND == 1001

JwIds == 1..MaxSent
\* createStorageRequest: the id (a uuid) of the storage request issued by invoke i
Sid(i) == MaxSent + i
UnknownId == 0                 \* the id 'unknown' of the worker's own error responses

\* what an invoke meets in the worker: the loader fails to find the manifest or
\* the module; the trik returns; the trik throws; the trik throws an error whose
\* message contains 'not found'; the trik awaits a storage call; the trik starts
\* a storage call and returns without awaiting it
TrikBehaviours == {"loadNotFound", "return", "throw", "throwNotFoundText",
                   "awaitStorage", "fireStorage"}

\* lines the gateway side writes: requests, a blank line, a line that is not JSON
JwRequestLines(id) ==
  {Line("object", "2.0", "str", id, m, FALSE, FALSE, "none") : m \in {"invoke", "health", "shutdown", "other"}}
  \cup {BlankLine, GarbageLine}

JwResponse(id, code) == [id |-> id, kind |-> IF code = 0 THEN "result" ELSE "error", code |-> code]

\* the worker-side state as a record (see Cur)
JwCur ==
  [running |-> running, loop |-> loop, proxyPending |-> proxyPending, trik |-> trik,
   jwOut |-> jwOut, jwStorage |-> jwStorage]

JwCommit(w) ==
  /\ running' = w.running
  /\ loop' = w.loop
  /\ proxyPending' = w.proxyPending
  /\ trik' = w.trik
  /\ jwOut' = w.jwOut
  /\ jwStorage' = w.jwStorage

\* writeResponse()
writeResponse(w, id, code) == [w EXCEPT !.jwOut = @ \cup {JwResponse(id, code)}]

\* StorageProxy.sendAndWait(): enter the request in the proxy's table and write it
sendAndWait(w, sid) ==
  [w EXCEPT !.proxyPending = @ \cup {sid}, !.jwStorage = @ \cup {sid}]

\* handleInvoke() from the point where the trik's storage call has completed:
\* the trik returns, the response is written and run() takes the next line
resumeInvoke(w) ==
  [writeResponse(w, w.trik.id, 0) EXCEPT !.trik = [id |-> NoId, phase |-> "none"],
                                         !.loop = "reading"]

\* StorageProxy.handleResponse(): settle the pending storage call of that id
handleResponse(w, m) ==
  IF m.id \in w.proxyPending
  THEN LET w1 == [w EXCEPT !.proxyPending = @ \ {m.id}]
       IN IF w.trik.phase = "awaitStorage" /\ Sid(w.trik.id) = m.id
          THEN resumeInvoke(w1)
          ELSE w1
  ELSE w

\* handleInvoke(): load the trik and run it
handleInvoke(w, id, b) ==
  CASE b = "loadNotFound" -> writeResponse(w, id, TRIK_NOT_FOUND)
    [] b = "return" -> writeResponse(w, id, 0)
    [] b = "throw" -> writeResponse(w, id, INTERNAL_ERROR)
    [] b = "throwNotFoundText" -> writeResponse(w, id, TRIK_NOT_FOUND)
    [] b = "fireStorage" -> writeResponse(sendAndWait(w, Sid(id)), id, 0)
    [] OTHER -> [sendAndWait(w, Sid(id)) EXCEPT !.trik = [id |-> id, phase |-> "awaitStorage"],
                                                !.loop = "handling"]

\* handleShutdown()
handleShutdown(w, id) == writeResponse([w EXCEPT !.running = FALSE], id, 0)

\* handleRequest()
handleRequest(w, m, b) ==
  CASE m.method = "health" -> writeResponse(w, m.id, 0)
    [] m.method = "shutdown" -> handleShutdown(w, m.id)
    [] m.method = "invoke" -> handleInvoke(w, m.id, b)
    [] OTHER -> writeResponse(w, m.id, METHOD_NOT_FOUND)

\* handleMessage()
handleMessage(w, line, b) ==
  IF ~parseMessage(line) THEN writeResponse(w, UnknownId, PARSE_ERROR)
  ELSE IF isResponse(line) THEN handleResponse(w, line)
  ELSE handleRequest(w, line, b)

\* run() without the `if (!this.running) break`
runLoopIgnoresRunning(w, line, b) ==
  IF line.text = "blank" THEN w
  ELSE handleMessage(w, line, b)

\* run(): one turn of `for await (const line of rl)`; while a handleMessage is
\* awaited the loop takes no line
runLoop(w, line, b) ==
  IF ~w.running THEN [w EXCEPT !.loop = "stopped"]
  ELSE IF line.text = "blank" THEN w
  ELSE handleMessage(w, line, b)

JwReadLine ==
  /\ loop = "reading"
  /\ jwIn # <<>>
  /\ \E b \in TrikBehaviours :
       /\ (b # "return") => (running /\ parseMessage(Head(jwIn)) /\ ~isResponse(Head(jwIn))
                               /\ Head(jwIn).method = "invoke")
       /\ JwCommit(runLoop(JwCur, Head(jwIn), b))
  /\ jwIn' = Tail(jwIn)
  /\ UNCHANGED jwSent
  /\ UNCHANGED notJw

\* the gateway side writes a request (or a line that is none)
JwGatewaySend ==
  /\ jwSent < MaxSent
  /\ Len(jwIn) < MaxIn
  /\ \E l \in JwRequestLines(jwSent + 1) : jwIn' = Append(jwIn, l)
  /\ jwSent' = jwSent + 1
  /\ UNCHANGED <<running, loop, proxyPending, trik, jwOut, jwStorage>>
  /\ UNCHANGED notJw

\* the gateway side answers a storage.* request of the worker, as a gateway with
\* a working storage proxy does
JwGatewayAnswer ==
  /\ \E sid \in jwStorage :
       /\ jwIn' = Append(jwIn, Line("object", "2.0", "str", sid, "none", TRUE, FALSE, "none"))
       /\ jwStorage' = jwStorage \ {sid}
  /\ UNCHANGED <<running, loop, proxyPending, trik, jwOut, jwSent>>
  /\ UNCHANGED notJw

JwNext ==
  \/ JwReadLine
  \/ JwGatewaySend
  \/ JwGatewayAnswer

JwInit ==
  /\ running = TRUE
  /\ loop = "reading"
  /\ proxyPending = {}
  /\ trik = [id |-> NoId, phase |-> "none"]
  /\ jwIn = <<>>
  /\ jwOut = {}
  /\ jwStorage = {}
  /\ jwSent = 0

\* ---------------------------------------------------------------- python-worker.ts, storage
\* Key texts and values are character sequences, so that SQL's LIKE, LENGTH and
\* the UTF-8 byte length are computed as the database and Buffer compute them.
\* "E" stands for U+00E9 (two bytes in UTF-8), "q" for the double quote and
\* "\\" for the backslash.
Triks == {"t1", "t2"}
Keys == {<<"A">>, <<"a", "_">>}
Prefixes == {<<>>, <<"a">>, <<"a", "_">>}
Values == {[type |-> "number", text |-> <<"1", "2", "3">>],
           [type |-> "string", text |-> <<"E">>]}
NULL == 0 - 1                 \* SQL NULL / undefined, for expires_at and expiresAt
NoTtl == 0 - 1                \* set() called without a ttl
Ttls == {NoTtl, 1}
maxSizeBytes == 6             \* capabilities.maxSizeBytes of every handle

JSONstringify(v) == IF v.type = "string" THEN <<"q">> \o v.text \o <<"q">> ELSE v.text
JSONparse(json) ==
  IF Head(json) = "q"
  THEN [type |-> "string", text |-> SubSeq(json, 2, Len(json) - 1)]
  ELSE [type |-> "number", text |-> json]

\* Buffer.byteLength(text, 'utf-8')
Utf8Width(ch) == IF ch = "E" THEN 2 ELSE 1
RECURSIVE byteLength(_)
byteLength(text) == IF text = <<>> THEN 0 ELSE Utf8Width(Head(text)) + byteLength(Tail(text))

\* SQL LENGTH() of a TEXT value: its number of characters
LENGTH(text) == Len(text)

\* SQL `text LIKE pattern` with no ESCAPE clause: % matches any run of
\* characters, _ any one character, letters match without regard to case, and
\* the backslash is an ordinary character
lower(ch) == IF ch = "A" THEN "a" ELSE ch
RECURSIVE LIKE(_, _)
LIKE(text, pattern) ==
  IF pattern = <<>> THEN text = <<>>
  ELSE IF Head(pattern) = "%"
  THEN LIKE(text, Tail(pattern)) \/ (text # <<>> /\ LIKE(Tail(text), pattern))
  ELSE IF text = <<>> THEN FALSE
  ELSE IF Head(pattern) = "_" THEN LIKE(Tail(text), Tail(pattern))
  ELSE lower(Head(text)) = lower(Head(pattern)) /\ LIKE(Tail(text), Tail(pattern))

\* prefix.replace(/[%_]/g, '\\$&')
RECURSIVE escapeLike(_)
escapeLike(prefix) ==
  IF prefix = <<>> THEN <<>>
  ELSE (IF Head(prefix) \in {"%", "_"} THEN <<"\\", Head(prefix)>> ELSE <<Head(prefix)>>)
         \o escapeLike(Tail(prefix))

\* String.prototype.startsWith
startsWith(k, prefix) == Len(prefix) <= Len(k) /\ SubSeq(k, 1, Len(prefix)) = prefix

\* the prepared statements of SqliteStorageContext (created_at is written and
\* never read, so the rows of the model do not carry it)
getStmt(d, t, k) == {r \in d : r.trik_id = t /\ r.key = k}
setStmtKeepsExpiry(d, t, k, json, exp) ==
  (d \ getStmt(d, t, k))
    \cup {[trik_id |-> t, key |-> k, value |-> json,
           expires_at |-> IF getStmt(d, t, k) # {}
                          THEN (CHOOSE r \in getStmt(d, t, k) : TRUE).expires_at
                          ELSE exp]}
setStmt(d, t, k, json, exp) ==
  (d \ getStmt(d, t, k)) \cup {[trik_id |-> t, key |-> k, value |-> json, expires_at |-> exp]}
deleteStmt(d, t, k) == d \ getStmt(d, t, k)
listStmt(d, t) == {r.key : r \in {x \in d : x.trik_id = t}}
listPrefixStmt(d, t, pattern) == {r.key : r \in {x \in d : x.trik_id = t /\ LIKE(x.key, pattern)}}
cleanupStmtAllTriks(d, t, n) == {r \in d : ~(r.expires_at # NULL /\ r.expires_at < n)}
cleanupStmt(d, t, n) == {r \in d : ~(r.trik_id = t /\ r.expires_at # NULL /\ r.expires_at < n)}
RECURSIVE SumLength(_)
SumLength(rows) ==
  IF rows = {} THEN 0
  ELSE LET r == CHOOSE x \in rows : TRUE IN LENGTH(r.value) + SumLength(rows \ {r})
usageStmt(d, t) == SumLength({r \in d : r.trik_id = t})

\* SqliteStorageContext: each method gives the table it leaves and its result.
\* get returns {} for null and {v} for the value v; set returns "ok", or
\* "quota" when it throws the quota error.
Sqlite_get(d, t, k, n) ==
  LET d1 == cleanupStmt(d, t, n)
      rows == getStmt(d1, t, k)
  IN IF rows = {} THEN [db |-> d1, res |-> {}]
     ELSE LET row == CHOOSE r \in rows : TRUE
          IN IF row.expires_at # NULL /\ row.expires_at < n
             THEN [db |-> deleteStmt(d1, t, k), res |-> {}]
             ELSE [db |-> d1, res |-> {JSONparse(row.value)}]

Sqlite_set(d, t, k, v, ttl, n) ==
  LET valueJson == JSONstringify(v)
      valueSize == byteLength(valueJson)
      currentRow == getStmt(d, t, k)
      currentKeySize == IF currentRow # {}
                        THEN byteLength((CHOOSE r \in currentRow : TRUE).value)
                        ELSE 0
      usage == usageStmt(d, t) - currentKeySize
      expiresAt == IF ttl # NoTtl /\ ttl > 0 THEN n + ttl ELSE NULL
  IN IF usage + valueSize > maxSizeBytes
     THEN [db |-> d, res |-> "quota"]
     ELSE [db |-> setStmt(d, t, k, valueJson, expiresAt), res |-> "ok"]

Sqlite_delete(d, t, k) == [db |-> deleteStmt(d, t, k), res |-> getStmt(d, t, k) # {}]

Sqlite_list(d, t, prefix, n) ==
  LET d1 == cleanupStmt(d, t, n)
  IN [db |-> d1,
      res |-> IF prefix # <<>>
              THEN listPrefixStmt(d1, t, escapeLike(prefix) \o <<"%">>)
              ELSE listStmt(d1, t)]

\* getMany returns the set of <<key, value>> pairs of its Map
RECURSIVE Sqlite_getMany(_, _, _, _)
Sqlite_getMany(d, t, ks, n) ==
  IF ks = <<>> THEN [db |-> d, res |-> {}]
  ELSE LET g == Sqlite_get(d, t, Head(ks), n)
           rest == Sqlite_getMany(g.db, t, Tail(ks), n)
       IN [db |-> rest.db,
           res |-> {<<Head(ks), v>> : v \in g.res} \cup rest.res]

\* setMany stops at the first set that throws
RECURSIVE Sqlite_setMany(_, _, _, _)
Sqlite_setMany(d, t, entries, n) ==
  IF entries = <<>> THEN [db |-> d, res |-> "ok"]
  ELSE LET s1 == Sqlite_set(d, t, Head(entries).key, Head(entries).value, NoTtl, n)
       IN IF s1.res = "quota" THEN s1 ELSE Sqlite_setMany(s1.db, t, Tail(entries), n)

\* InMemoryStorageProvider.forTrik: the methods over the trik's Map `ts`, a set
\* of entries [key, value, expiresAt]
truthy(x) == x # NULL /\ x # 0
memEntry(ts, k) == {e \in ts : e.key = k}

InMemory_get(ts, k, n) ==
  LET entry == memEntry(ts, k)
  IN IF entry = {} THEN [ts |-> ts, res |-> {}]
     ELSE LET e == CHOOSE x \in entry : TRUE
          IN IF truthy(e.expiresAt) /\ e.expiresAt < n
             THEN [ts |-> ts \ entry, res |-> {}]
             ELSE [ts |-> ts, res |-> {e.value}]

InMemory_set(ts, k, v, ttl, n) ==
  [ts |-> (ts \ memEntry(ts, k))
            \cup {[key |-> k, value |-> v,
                   expiresAt |-> IF ttl # NoTtl /\ ttl > 0 THEN n + ttl ELSE NULL]},
   res |-> "ok"]

InMemory_delete(ts, k) == [ts |-> ts \ memEntry(ts, k), res |-> memEntry(ts, k) # {}]

InMemory_list(ts, prefix) ==
  LET keys == {e.key : e \in ts}
  IN [ts |-> ts,
      res |-> IF prefix # <<>> THEN {k \in keys : startsWith(k, prefix)} ELSE keys]

InMemory_getMany(ts, ks, n) ==
  [ts |-> ts,
   res |-> {<<e.key, e.value>> :
              e \in {x \in ts : /\ \E i \in 1..Len(ks) : ks[i] = x.key
                                /\ (~truthy(x.expiresAt) \/ x.expiresAt >= n)}}]

RECURSIVE InMemory_setMany(_, _)
InMemory_setMany(ts, entries) ==
  IF entries = <<>> THEN [ts |-> ts, res |-> "ok"]
  ELSE InMemory_setMany((ts \ memEntry(ts, Head(entries).key))
                          \cup {[key |-> Head(entries).key, value |-> Head(entries).value,
                                 expiresAt |-> NULL]},
                        Tail(entries))

\* The callers of the storage interface: every call is made on the handles that
\* both providers give for the same trik, with the same arguments at the same
\* time. No method awaits before it returns, so a call is one step and calls
\* made concurrently run one after the other. The second trik uses one key.
TrikKeys(t) == IF t = "t1" THEN Keys ELSE {<<"A">>}
KeyLists(t) == {ks \in UNION {[1..n -> TrikKeys(t)] : n \in 1..2} :
                  /\ Len(ks) = Cardinality(TrikKeys(t))
                  /\ \A i, j \in 1..Len(ks) : i # j => ks[i] # ks[j]}
EntryLists(t) == {[i \in 1..Len(ks) |-> [key |-> ks[i], value |-> vs[i]]] :
                    ks \in KeyLists(t), vs \in [1..Cardinality(TrikKeys(t)) -> Values]}

StCall(op, t, arg, d, m) ==
  /\ db' = d.db
  /\ mem' = [mem EXCEPT ![t] = m.ts]
  /\ stReplaced' = /\ op = "set"
                   /\ \E r \in getStmt(db, t, arg), r2 \in getStmt(d.db, t, arg) :
                        r.value # r2.value /\ r.expires_at # r2.expires_at
                   /\ \E e \in memEntry(mem[t], arg), e2 \in memEntry(m.ts, arg) :
                        e.value # e2.value /\ e.expiresAt # e2.expiresAt
  /\ UNCHANGED now
  /\ UNCHANGED notSt

StGet(t, k) ==
  /\ k \in TrikKeys(t)
  /\ StCall("get", t, k,
            Sqlite_get(db, t, k, now), InMemory_get(mem[t], k, now))

StSet(t, k, v, ttl) ==
  /\ k \in TrikKeys(t)
  /\ StCall("set", t, k,
            Sqlite_set(db, t, k, v, ttl, now), InMemory_set(mem[t], k, v, ttl, now))

StDelete(t, k) ==
  /\ k \in TrikKeys(t)
  /\ StCall("delete", t, k,
            Sqlite_delete(db, t, k), InMemory_delete(mem[t], k))

StList(t, prefix) ==
  /\ prefix \in Prefixes
  /\ StCall("list", t, prefix,
            Sqlite_list(db, t, prefix, now), InMemory_list(mem[t], prefix))

StGetMany(t, ks) ==
  /\ ks \in KeyLists(t)
  /\ StCall("getMany", t, ks,
            Sqlite_getMany(db, t, ks, now), InMemory_getMany(mem[t], ks, now))

StSetMany(t, entries) ==
  /\ entries \in EntryLists(t)
  /\ StCall("setMany", t, entries,
            Sqlite_setMany(db, t, entries, now), InMemory_setMany(mem[t], entries))

\* a millisecond passes
Tick ==
  /\ now < MaxClock
  /\ now' = now + 1
  /\ UNCHANGED <<db, mem, stReplaced>>
  /\ UNCHANGED notSt

StNext ==
  \/ \E t \in Triks, k \in Keys : StGet(t, k)
  \/ \E t \in Triks, k \in Keys, v \in Values, ttl \in Ttls : StSet(t, k, v, ttl)
  \/ \E t \in Triks, k \in Keys : StDelete(t, k)
  \/ \E t \in Triks, prefix \in Prefixes : StList(t, prefix)
  \/ \E t \in Triks : \E ks \in KeyLists(t) : StGetMany(t, ks)
  \/ \E t \in Triks : \E entries \in EntryLists(t) : StSetMany(t, entries)
  \/ Tick

StInit ==
  /\ db = {}
  /\ mem = [t \in Triks |-> {}]
  /\ now = 0
  /\ stReplaced = FALSE

\* ---------------------------------------------------------------- agentDataSchema security checks
\* A schema node: its type (a name, or an array of names), the constraint
\* keywords it carries, and its sub-schemas under properties, items and $defs.
\* properties and $defs are sequences of [key, schema], items holds no or one schema.
TypeOf(isArray, names) == [isArray |-> isArray, names |-> names]
NodeTypes == {TypeOf(FALSE, {"string"}), TypeOf(FALSE, {"number"}),
              TypeOf(TRUE, {"string", "null"}), TypeOf(TRUE, {"number", "null"})}
EnumKinds == {"absent", "empty", "nonempty"}          \* no enum, [], ["a"]
ConstKinds == {"absent", "falsy", "truthy"}           \* no const, "" / 0 / false, "a"
PatternKinds == {"absent", "present"}
Formats == {"absent", "date", "time", "uri", "url", "hostname"}
Node(type, enum, const, pattern, format, properties, items, defs) ==
  [type |-> type, enum |-> enum, const |-> const, pattern |-> pattern, format |-> format,
   properties |-> properties, items |-> items, defs |-> defs]
LeafSchemas ==
  {Node(t, e, c, p, f, <<>>, <<>>, <<>>) :
     t \in NodeTypes, e \in EnumKinds, c \in ConstKinds, p \in PatternKinds, f \in Formats}
Container(type, properties, items, defs) ==
  Node(TypeOf(FALSE, {type}), "absent", "absent", "absent", "absent", properties, items, defs)
Schemas ==
  LeafSchemas
    \cup {Container("object", <<[key |-> "p", schema |-> l]>>, <<>>, <<>>) : l \in LeafSchemas}
    \cup {Container("array", <<>>, <<l>>, <<>>) : l \in LeafSchemas}
    \cup {Container("object", <<>>, <<>>, <<[key |-> "d", schema |-> l]>>) : l \in LeafSchemas}

\* @trikhub/manifest (part_004). A path is the sequence of its segments; the
\* empty path is the one the code prints as 'root'.
ALLOWED_STRING_FORMATS == {"date", "date-time", "time", "email", "uri", "uuid", "id"}

isConstrainedString(s) ==
  \/ s.enum # "absent" \/ s.const = "truthy" \/ s.pattern = "present"
  \/ (s.format # "absent" /\ s.format \in ALLOWED_STRING_FORMATS)

RECURSIVE findUnconstrainedStrings(_, _)
findUnconstrainedStrings(s, path) ==
  (IF ~s.type.isArray /\ s.type.names = {"string"} /\ ~isConstrainedString(s)
   THEN {path} ELSE {})
    \cup UNION {findUnconstrainedStrings(s.properties[i].schema, path \o <<s.properties[i].key>>) :
                  i \in 1..Len(s.properties)}
    \cup UNION {findUnconstrainedStrings(s.items[i], path \o <<"[]">>) : i \in 1..Len(s.items)}
    \cup UNION {findUnconstrainedStrings(s.defs[i].schema, <<"$defs", s.defs[i].key>>) :
                  i \in 1..Len(s.defs)}

\* one warning per path
validateAgentDataSecurity(s) == findUnconstrainedStrings(s, <<>>)

\* the MCP validate tool (packages/js/mcp/src/tools/validate.ts); paths are
\* taken relative to the action's agentDataSchema
ALLOWED_AGENT_STRING_FORMATS == {"id", "date", "date-time", "uuid", "email", "url"}

mcp_isConstrainedString(s) ==
  \/ s.enum = "nonempty" \/ s.const # "absent" \/ s.pattern = "present"
  \/ (s.format # "absent" /\ s.format \in ALLOWED_AGENT_STRING_FORMATS)

RECURSIVE mcp_findUnconstrainedStrings(_, _)
mcp_findUnconstrainedStrings(s, path) ==
  (IF "string" \in s.type.names /\ ~mcp_isConstrainedString(s) THEN {path} ELSE {})
    \cup UNION {mcp_findUnconstrainedStrings(s.properties[i].schema,
                                             path \o <<s.properties[i].key>>) :
                  i \in 1..Len(s.properties)}
    \cup UNION {mcp_findUnconstrainedStrings(s.items[i], path \o <<"[]">>) :
                  i \in 1..Len(s.items)}

ValidateAgentDataSecurity ==
  /\ ~scReport.manifestDone
  /\ scReport' = [scReport EXCEPT !.manifestDone = TRUE,
                                  !.manifest = validateAgentDataSecurity(schema)]
  /\ UNCHANGED schema
  /\ UNCHANGED notSc

ValidateTrikManifest ==
  /\ ~scReport.mcpDone
  /\ scReport' = [scReport EXCEPT !.mcpDone = TRUE,
                                  !.mcp = mcp_findUnconstrainedStrings(schema, <<>>)]
  /\ UNCHANGED schema
  /\ UNCHANGED notSc

ScNext ==
  \/ ValidateAgentDataSecurity
  \/ ValidateTrikManifest

NoSchema == Container("object", <<>>, <<>>, <<>>)
NoReport == [manifestDone |-> FALSE, manifest |-> {}, mcpDone |-> FALSE, mcp |-> {}]
\* ---------------------------------------------------------------- worker-protocol.ts: messages as objects
\* A JavaScript value by its kind. JSON.stringify omits an object member whose
\* value is undefined; reading a member that is absent gives undefined.
JsValues == {"undefined", "null", "number", "string", "object"}
MsgIds == {"id1", "id2"}
WorkerMethods == {"invoke", "health", "shutdown"} \cup StorageMethods
ErrorCodes == {STORAGE_ERROR, 0 - 32603}
NoError == [keys |-> {}, code |-> 0, message |-> "undefined", data |-> "undefined"]

\* A message object: keys are its own property names, the other fields their
\* values ("undefined" for a property that is absent).
createRequest(id, method, params) ==
  [keys |-> {"jsonrpc", "id", "method", "params"}, jsonrpc |-> "2.0", id |-> id,
   method |-> method, params |-> params, result |-> "undefined", error |-> NoError]

Msg_createSuccessResponse(id, result) ==
  [keys |-> {"jsonrpc", "id", "result"}, jsonrpc |-> "2.0", id |-> id,
   method |-> "undefined", params |-> "undefined", result |-> result, error |-> NoError]

Msg_createErrorResponse(id, code, message, data) ==
  [keys |-> {"jsonrpc", "id", "error"}, jsonrpc |-> "2.0", id |-> id,
   method |-> "undefined", params |-> "undefined", result |-> "undefined",
   error |-> [keys |-> {"code", "message", "data"}, code |-> code,
              message |-> message, data |-> data]]

\* JSON.stringify of an object: the members whose value is undefined are left out
stringifyKeys(o, valued) == {k \in o.keys : k \notin valued \/ o[k] # "undefined"}

\* serializeMessage: the text, by the JSON tree it denotes
serializeMessage(m) ==
  [text |-> "object",
   tree |-> [m EXCEPT !.keys = stringifyKeys(m, {"method", "params", "result"})
                                 \ (IF m.error.keys = {} THEN {"error"} ELSE {}),
                      !.error = [m.error EXCEPT !.keys = stringifyKeys(m.error, {"message", "data"})]]]

\* parseMessage on a text: the parsed object, or Thrown
Thrown == [keys |-> {}, jsonrpc |-> "thrown", id |-> "thrown", method |-> "undefined",
           params |-> "undefined", result |-> "undefined", error |-> NoError]
Msg_parseMessage(line) ==
  IF line.text = "object" /\ line.tree.jsonrpc = "2.0" /\ "id" \in line.tree.keys
     /\ line.tree.id \in STRING
  THEN line.tree
  ELSE Thrown

\* 'method' in message
Msg_isRequest(m) == "method" \in m.keys
\* 'result' in message || 'error' in message
Msg_isResponse(m) == "result" \in m.keys \/ "error" \in m.keys

\* expect(a).toEqual(b): deep equality that ignores members whose value is undefined
toEqual(a, b) ==
  /\ a.jsonrpc = b.jsonrpc
  /\ a.id = b.id
  /\ a.method = b.method
  /\ a.params = b.params
  /\ a.result = b.result
  /\ stringifyKeys(a.error, {"message", "data"}) = stringifyKeys(b.error, {"message", "data"})
  /\ a.error.code = b.error.code
  /\ a.error.message = b.error.message
  /\ a.error.data = b.error.data

Messages ==
  {createRequest(i, m, p) : i \in MsgIds, m \in WorkerMethods, p \in JsValues}
  \cup {Msg_createSuccessResponse(i, r) : i \in MsgIds, r \in JsValues}
  \cup {Msg_createErrorResponse(i, c, "string", d) : i \in MsgIds, c \in ErrorCodes, d \in JsValues}

NoMsg == [keys |-> {}, jsonrpc |-> "none", id |-> "none", method |-> "undefined",
          params |-> "undefined", result |-> "undefined", error |-> NoError]
NoWire == [text |-> "none", tree |-> NoMsg]

SerializeMessage ==
  /\ msg # NoMsg
  /\ wire = NoWire
  /\ wire' = serializeMessage(msg)
  /\ UNCHANGED <<msg, parsed>>
  /\ UNCHANGED notPr

ParseMessage ==
  /\ wire # NoWire
  /\ parsed = NoMsg
  /\ parsed' = Msg_parseMessage(wire)
  /\ UNCHANGED <<msg, wire>>
  /\ UNCHANGED notPr

PrNext ==
  \/ SerializeMessage
  \/ ParseMessage

\* ---------------------------------------------------------------- fillTemplate
MaxTemplate == 2     \* pieces in a template text
\* A template text as a sequence of pieces: plain text, or a pair of double
\* braces around a name; word says whether the name is made of \w characters
\* only, as "a-b" is not.
TextPiece == [kind |-> "text", name |-> "", word |-> FALSE]
Placeholder(name, word) == [kind |-> "braces", name |-> name, word |-> word]
FieldNames == {"a", "b"}
\* the members every object inherits from Object.prototype
ObjectPrototype == {"toString", "constructor"}
Pieces ==
  {TextPiece} \cup {Placeholder(n, TRUE) : n \in FieldNames \cup {"toString", "x"}}
              \cup {Placeholder("a-b", FALSE)}
Templates == UNION {[1..n -> Pieces] : n \in 1..MaxTemplate}
\* agent data: a plain object with some of the fields, each holding a value
FieldValues == {"string", "number", "null", "undefined"}
AgentData == UNION {[own -> FieldValues] : own \in SUBSET FieldNames}

\* data[key]: the own field, else the inherited member, else undefined
member(data, key) ==
  IF key \in DOMAIN data THEN data[key]
  ELSE IF key \in ObjectPrototype THEN "function"
  ELSE "undefined"

\* a ?? b
nullish(a, b) == IF a \in {"null", "undefined"} THEN b ELSE a

\* String(v), as a piece of the output
String(v) == [kind |-> "value", name |-> v, word |-> FALSE]

\* template.replace(/\{\{(\w+)\}\}/g, (_, key) => String(data[key] ?? `{{${key}}}`)):
\* every match is replaced once, the rest of the text is kept
fillTemplate(template, data) ==
  [i \in 1..Len(template) |->
     LET p == template[i]
     IN IF p.kind = "braces" /\ p.word
        THEN LET v == nullish(member(data, p.name), "literal")
             IN IF v = "literal" THEN p ELSE String(v)
        ELSE p]

NoTemplate == [template |-> <<>>, data |-> <<>>]
NoText == <<[kind |-> "none", name |-> "", word |-> FALSE]>>

FillTemplate ==
  /\ tplIn # NoTemplate
  /\ tplOut = NoText
  /\ tplOut' = fillTemplate(tplIn.template, tplIn.data)
  /\ UNCHANGED tplIn
  /\ UNCHANGED notTp

TpNext == FillTemplate

\* ---------------------------------------------------------------- manifests
\* An optional member is a sequence of no or one value. An object whose member
\* order matters (Object.entries) is a sequence of entries.
NumberLeaf ==
  Node(TypeOf(FALSE, {"number"}), "absent", "absent", "absent", "absent", <<>>, <<>>, <<>>)
StringLeaf ==
  Node(TypeOf(FALSE, {"string"}), "absent", "absent", "absent", "absent", <<>>, <<>>, <<>>)
AgentDataSchemas ==
  {<<>>,
   <<Container("object", <<>>, <<>>, <<>>)>>,
   <<Container("object", <<[key |-> "a", schema |-> NumberLeaf]>>, <<>>, <<>>)>>,
   <<Container("object", <<[key |-> "a", schema |-> StringLeaf]>>, <<>>, <<>>)>>}

\* a response template: its text member, when it has one
TemplateDef(hasText, text) == [hasText |-> hasText, text |-> text]
TemplateTexts ==
  {<<TextPiece>>, <<Placeholder("a", TRUE)>>, <<Placeholder("x", TRUE)>>,
   <<Placeholder("a", TRUE), Placeholder("x", TRUE)>>, <<Placeholder("a-b", FALSE)>>}
TemplateDefs == {TemplateDef(TRUE, t) : t \in TemplateTexts} \cup {TemplateDef(FALSE, <<>>)}
TemplateMaps ==
  {<<>>}
    \cup {<<[id |-> i, def |-> d]>> : i \in {"success", "other"}, d \in TemplateDefs}
    \cup {<<[id |-> "success", def |-> d1], [id |-> "other", def |-> d2]>> :
            d1 \in TemplateDefs, d2 \in TemplateDefs}

ActionDef(responseMode, inputSchema, agentDataSchema, userContentSchema, responseTemplates, description) ==
  [responseMode |-> responseMode, inputSchema |-> inputSchema,
   agentDataSchema |-> agentDataSchema, userContentSchema |-> userContentSchema,
   responseTemplates |-> responseTemplates, description |-> description]
ActionDefs ==
  {ActionDef(m, i, a, u, r, TRUE) :
     m \in {"template", "passthrough"}, i \in BOOLEAN, a \in AgentDataSchemas,
     u \in BOOLEAN, r \in {<<>>} \cup {<<t>> : t \in TemplateMaps}}
\* the actions that stand next to the one under test in a manifest of two
Companions ==
  {ActionDef("passthrough", TRUE, <<>>, TRUE, <<>>, FALSE),
   ActionDef("template", TRUE,
             <<Container("object", <<[key |-> "a", schema |-> NumberLeaf]>>, <<>>, <<>>)>>, FALSE,
             <<<<[id |-> "success", def |-> TemplateDef(TRUE, <<Placeholder("a", TRUE)>>)]>>>>, TRUE),
   ActionDef("template", TRUE,
             <<Container("object", <<[key |-> "a", schema |-> NumberLeaf]>>, <<>>, <<>>)>>, FALSE,
             <<<<[id |-> "default", def |-> TemplateDef(TRUE, <<Placeholder("x", TRUE)>>)]>>>>, TRUE)}

\* The members of a manifest other than its actions: header says that
\* schemaVersion, id, name, description and version are present and well formed;
\* capabilities and entry that the member is; maxExecutionTimeMs is NULL when
\* limits is absent.
ManifestOf(header, capabilities, maxExecutionTimeMs, entry, actions) ==
  [header |-> header, capabilities |-> capabilities,
   maxExecutionTimeMs |-> maxExecutionTimeMs, entry |-> entry, actions |-> actions]
ActionMaps ==
  {<<>>, <<<<>>>>}
    \cup {<<<<[name |-> "x", action |-> a]>>>> : a \in ActionDefs}
    \cup {<<<<[name |-> "x", action |-> a], [name |-> "y", action |-> c]>>>> :
            a \in ActionDefs, c \in Companions}
Manifests ==
  {ManifestOf(TRUE, TRUE, 30000, TRUE, as) : as \in ActionMaps}
    \cup {ManifestOf(h, c, l, e, as) :
            h \in BOOLEAN, c \in BOOLEAN, l \in {NULL, 0, 120000}, e \in BOOLEAN,
            as \in {<<<<[name |-> "x", action |-> c2]>>>> : c2 \in Companions}}

\* @trikhub/manifest (part_004): actionSchemaTemplate
actionSchemaTemplate(a) ==
  /\ a.responseMode = "template"
  /\ a.inputSchema
  /\ a.agentDataSchema # <<>>
  /\ a.responseTemplates # <<>>
  /\ \A i \in 1..Len(a.responseTemplates[1]) : a.responseTemplates[1][i].def.hasText

\* actionSchemaPassthrough
actionSchemaPassthrough(a) ==
  /\ a.responseMode = "passthrough"
  /\ a.inputSchema
  /\ a.userContentSchema

\* manifestSchema, as ajv evaluates it
manifestSchema(m) ==
  /\ m.header
  /\ m.capabilities
  /\ m.maxExecutionTimeMs # NULL
  /\ m.maxExecutionTimeMs >= 0
  /\ m.entry
  /\ m.actions # <<>>
  /\ Len(m.actions[1]) >= 1
  /\ \A i \in 1..Len(m.actions[1]) :
       \/ actionSchemaTemplate(m.actions[1][i].action)
       \/ actionSchemaPassthrough(m.actions[1][i].action)

\* validateManifest: valid, or the formatted ajv errors (the model keeps one)
validateManifest(m) ==
  IF manifestSchema(m)
  THEN [valid |-> TRUE, errors |-> <<>>]
  ELSE [valid |-> FALSE, errors |-> <<"schema">>]

\* validate.ts. An error or a warning is its path and its message.
Issue(path, message) == [path |-> path, message |-> message]

RECURSIVE Flatten(_)
Flatten(ss) == IF ss = <<>> THEN <<>> ELSE Head(ss) \o Flatten(Tail(ss))
RECURSIVE ListOf(_)
ListOf(S) == IF S = {} THEN <<>> ELSE LET x == CHOOSE y \in S : TRUE IN <<x>> \o ListOf(S \ {x})

\* extractPlaceholders: the names matched by /\{\{(\w+)\}\}/g, in order
extractPlaceholders(text) ==
  LET matched == SelectSeq(text, LAMBDA p : p.kind = "braces" /\ p.word)
  IN [i \in 1..Len(matched) |-> matched[i].name]

\* Object.keys(action.agentDataSchema.properties), or [] without properties
schemaFields(a) ==
  IF a.agentDataSchema = <<>> THEN {}
  ELSE {a.agentDataSchema[1].properties[i].key : i \in 1..Len(a.agentDataSchema[1].properties)}

\* (changed) a placeholder check that stops after the first template
placeholderErrorsFirstTemplate(name, a) ==
  LET ts == a.responseTemplates[1]
      bad == SelectSeq(extractPlaceholders(ts[1].def.text), LAMBDA p : p \notin schemaFields(a))
  IN [j \in 1..Len(bad) |->
        Issue(<<"actions", name, "responseTemplates", ts[1].id>>, <<"placeholderNotFound", bad[j]>>)]

\* validateTrikManifest: every placeholder of every template must be a schema field
placeholderErrors(name, a) ==
  LET ts == a.responseTemplates[1]
      bad(i) == SelectSeq(extractPlaceholders(ts[i].def.text), LAMBDA p : p \notin schemaFields(a))
  IN Flatten([i \in 1..Len(ts) |->
        [j \in 1..Len(bad(i)) |->
           Issue(<<"actions", name, "responseTemplates", ts[i].id>>,
                 <<"placeholderNotFound", bad(i)[j]>>)]])

\* validateTrikManifest: the errors of one action
actionErrors(name, a) ==
  IF a.responseMode = "template"
  THEN (IF a.agentDataSchema = <<>>
        THEN <<Issue(<<"actions", name, "agentDataSchema">>, <<"requiresAgentDataSchema">>)>>
        ELSE LET violations == ListOf(mcp_findUnconstrainedStrings(
                                   a.agentDataSchema[1], <<"actions", name, "agentDataSchema">>))
             IN [v \in 1..Len(violations) |-> Issue(violations[v], <<"unconstrainedString">>)])
       \o (IF a.responseTemplates = <<>> \/ Len(a.responseTemplates[1]) = 0
           THEN <<Issue(<<"actions", name, "responseTemplates">>, <<"requiresResponseTemplate">>)>>
           ELSE placeholderErrors(name, a))
  ELSE IF a.responseMode = "passthrough" /\ ~a.userContentSchema
  THEN <<Issue(<<"actions", name, "userContentSchema">>, <<"requiresUserContentSchema">>)>>
  ELSE <<>>

\* validateTrikManifest: the warnings of one action
actionWarnings(name, a, strict) ==
  (IF /\ a.responseMode = "template"
      /\ a.responseTemplates # <<>>
      /\ Len(a.responseTemplates[1]) > 0
      /\ ~\E i \in 1..Len(a.responseTemplates[1]) :
            a.responseTemplates[1][i].id \in {"success", "error", "default"}
   THEN <<Issue(<<"actions", name, "responseTemplates">>, <<"noCommonTemplateName">>)>>
   ELSE <<>>)
    \o (IF ~a.description /\ strict
        THEN <<Issue(<<"actions", name, "description">>, <<"missingDescription">>)>> ELSE <<>>)
    \o (IF ~a.inputSchema
        THEN <<Issue(<<"actions", name, "inputSchema">>, <<"missingInputSchema">>)>> ELSE <<>>)

\* securityScore -= ..., by the error
Penalty(e) ==
  CASE e.message[1] = "schema" -> 50
    [] e.message[1] = "requiresAgentDataSchema" -> 20
    [] e.message[1] = "unconstrainedString" -> 10
    [] e.message[1] = "requiresResponseTemplate" -> 15
    [] e.message[1] = "placeholderNotFound" -> 5
    [] e.message[1] = "requiresUserContentSchema" -> 15
    [] e.message[1] = "noActions" -> 30
    [] OTHER -> 10
RECURSIVE SumPenalty(_)
SumPenalty(es) == IF es = <<>> THEN 0 ELSE Penalty(Head(es)) + SumPenalty(Tail(es))

InvalidJson ==
  [valid |-> FALSE, errors |-> <<Issue(<<"root">>, <<"invalidJson">>)>>, warnings |-> <<>>,
   securityScore |-> 0]

\* validateTrikManifest(manifestContent, strict)
validateTrikManifest(manifestContent, strict) ==
  IF ~manifestContent.json THEN InvalidJson
  ELSE
    LET m == manifestContent.value
        schemaResult == validateManifest(m)
        errors ==
          [i \in 1..Len(schemaResult.errors) |-> Issue(<<"schema">>, <<"schema">>)]
            \o (IF m.actions # <<>>
                THEN Flatten([i \in 1..Len(m.actions[1]) |->
                       actionErrors(m.actions[1][i].name, m.actions[1][i].action)])
                ELSE <<Issue(<<"actions">>, <<"noActions">>)>>)
            \o (IF ~m.capabilities THEN <<Issue(<<"capabilities">>, <<"noCapabilities">>)>> ELSE <<>>)
            \o (IF ~m.entry THEN <<Issue(<<"entry", "module">>, <<"noEntryModule">>)>> ELSE <<>>)
        warnings ==
          (IF m.actions # <<>>
           THEN Flatten([i \in 1..Len(m.actions[1]) |->
                  actionWarnings(m.actions[1][i].name, m.actions[1][i].action, strict)])
           ELSE <<>>)
            \o (IF m.maxExecutionTimeMs = NULL \/ m.maxExecutionTimeMs = 0
                THEN <<Issue(<<"limits", "maxExecutionTimeMs">>, <<"missingLimit">>)>>
                ELSE IF m.maxExecutionTimeMs > 60000
                THEN <<Issue(<<"limits", "maxExecutionTimeMs">>, <<"highLimit">>)>>
                ELSE <<>>)
        score == 100 - SumPenalty(errors)
    IN [valid |-> Len(errors) = 0, errors |-> errors, warnings |-> warnings,
        securityScore |-> IF score < 0 THEN 0 ELSE score]

NoManifest == [json |-> FALSE, value |-> ManifestOf(FALSE, FALSE, NULL, FALSE, <<>>)]
ManifestContents ==
  {[json |-> TRUE, value |-> m] : m \in Manifests}
    \cup {[json |-> FALSE, value |-> ManifestOf(TRUE, TRUE, 30000, TRUE, <<>>)]}
NotRun == [done |-> FALSE, valid |-> FALSE, errors |-> <<>>, warnings |-> <<>>, securityScore |-> 0]
NoVerdicts == [structural |-> NotRun, mcp |-> NotRun]

\* validateManifest is given the parsed manifest
ValidateManifest ==
  /\ manifest.json
  /\ ~mvReport.structural.done
  /\ LET r == validateManifest(manifest.value)
     IN mvReport' = [mvReport EXCEPT !.structural =
                       [done |-> TRUE, valid |-> r.valid, errors |-> r.errors,
                        warnings |-> <<>>, securityScore |-> 0]]
  /\ UNCHANGED manifest
  /\ UNCHANGED notMv

McpValidate(strict) ==
  /\ manifest # NoManifest
  /\ ~mvReport.mcp.done
  /\ LET r == validateTrikManifest(manifest, strict)
     IN mvReport' = [mvReport EXCEPT !.mcp =
                       [done |-> TRUE, valid |-> r.valid, errors |-> r.errors,
                        warnings |-> r.warnings, securityScore |-> r.securityScore]]
  /\ UNCHANGED manifest
  /\ UNCHANGED notMv

MvNext ==
  \/ ValidateManifest
  \/ \E strict \in BOOLEAN : McpValidate(strict)

\* ---------------------------------------------------------------- TrikLinter
MaxSourceFiles == 1  \* TypeScript source files in a trik directory
ManifestRules == <<"no-free-strings-in-agent-data", "template-fields-exist",
                   "has-response-templates", "default-template-recommended">>
SourceRules == <<"no-forbidden-imports", "no-dynamic-code", "undeclared-tool", "no-process-env">>
RuleNames == {ManifestRules[i] : i \in 1..4} \cup {SourceRules[i] : i \in 1..4}
LintResult(rule, severity) == [rule |-> rule, severity |-> severity]

\* What the rule functions of rules.js find in a trik: per rule, the severities
\* of its results (for a source rule: in each source file).
Findings(f) == [r \in RuleNames |-> IF r \in DOMAIN f THEN f[r] ELSE <<>>]
RuleFindings ==
  {Findings(<<>>),
   Findings([r \in {"no-free-strings-in-agent-data", "default-template-recommended"} |->
               IF r = "default-template-recommended" THEN <<"info">> ELSE <<"error">>]),
   Findings([r \in {"template-fields-exist", "no-process-env"} |->
               IF r = "no-process-env" THEN <<"warning">> ELSE <<"error", "error">>]),
   Findings([r \in {"no-forbidden-imports", "no-dynamic-code"} |-> <<"error">>])}

PassthroughAction == ActionDef("passthrough", TRUE, <<>>, TRUE, <<>>, FALSE)
LintManifests ==
  {[json |-> TRUE, value |-> ManifestOf(TRUE, TRUE, l, TRUE, <<<<[name |-> "x", action |-> PassthroughAction]>>>>)] :
     l \in {30000, 120000}}
    \cup {[json |-> TRUE, value |-> ManifestOf(TRUE, TRUE, 30000, TRUE, <<<<>>>>)],
          [json |-> TRUE, value |-> ManifestOf(FALSE, TRUE, 120000, TRUE,
                                                <<<<[name |-> "x", action |-> PassthroughAction]>>>>)],
          [json |-> FALSE, value |-> ManifestOf(TRUE, TRUE, 30000, TRUE, <<>>)]}

\* A trik directory: where findManifestPath finds manifest.json ("none", at the
\* root: "node", in a package directory: "python"), the file's content, the
\* optional members the manifest has, whether the entry module exists as a
\* file, the number of TypeScript source files and whether the entry module is
\* one of them, and what the rules find.
TrikDirs ==
  [location : {"none", "node", "python"}, content : LintManifests,
   optional : {{}, {"author", "repository", "license"}}, entryExists : BOOLEAN,
   sourceFiles : 0..MaxSourceFiles, entryIsSource : BOOLEAN, findings : RuleFindings]
LinterConfigs ==
  [warningsAsErrors : BOOLEAN, checkCompiledEntry : BOOLEAN,
   skipRules : {{}, {"manifest-completeness"}, {"default-template-recommended", "no-process-env"}}]

\* shouldSkipRule
shouldSkipRule(config, ruleName) == ruleName \in config.skipRules

\* (changed) a loader that parses the manifest and does not validate it
loadManifestFromPathUnvalidated(dir) ==
  dir.content.json

\* loadManifestFromPath: TRUE when it returns the manifest, FALSE when it throws
loadManifestFromPath(dir) ==
  dir.content.json /\ validateManifest(dir.content.value).valid

\* loadManifest of linter.ts reads manifest.json at the root of the trik
loadManifest(dir) ==
  dir.location = "node" /\ dir.content.json /\ validateManifest(dir.content.value).valid

\* the results of the rules of a list that are not skipped, and the rules run
runRules(config, dir, rules) ==
  [results |-> Flatten([i \in 1..Len(rules) |->
                 IF shouldSkipRule(config, rules[i]) THEN <<>>
                 ELSE [j \in 1..Len(dir.findings[rules[i]]) |->
                         LintResult(rules[i], dir.findings[rules[i]][j])]]),
   ran |-> {rules[i] : i \in {j \in 1..Len(rules) : ~shouldSkipRule(config, rules[j])}}]

\* lintManifest
lintManifest(config, dir) == runRules(config, dir, ManifestRules)

\* checkManifestCompleteness
checkManifestCompleteness(dir) ==
  Flatten([i \in 1..3 |->
     IF <<"author", "repository", "license">>[i] \in dir.optional THEN <<>>
     ELSE <<LintResult("manifest-completeness", "info")>>])
    \o (IF dir.content.value.maxExecutionTimeMs > 60000
        THEN <<LintResult("manifest-completeness", "warning")>> ELSE <<>>)

\* steps 2 and 3 of lint and lintManifestOnly
manifestChecks(config, dir) ==
  LET m == lintManifest(config, dir)
      skip == shouldSkipRule(config, "manifest-completeness")
  IN [results |-> m.results \o (IF skip THEN <<>> ELSE checkManifestCompleteness(dir)),
      ran |-> m.ran \cup (IF skip THEN {} ELSE {"manifest-completeness"})]

\* the analysis of every source file
sourceChecks(config, dir) ==
  LET one == runRules(config, dir, SourceRules)
  IN [results |-> Flatten([f \in 1..dir.sourceFiles |-> one.results]), ran |-> one.ran]

\* `if (this.config.warningsAsErrors)`: every warning becomes an error
applyWarningsAsErrors(config, out) ==
  IF config.warningsAsErrors
  THEN [out EXCEPT !.results =
          [i \in 1..Len(out.results) |->
             IF out.results[i].severity = "warning"
             THEN LintResult(out.results[i].rule, "error") ELSE out.results[i]]]
  ELSE out

InvalidManifest == [results |-> <<LintResult("valid-manifest", "error")>>, ran |-> {}]
addResults(out, more) == [out EXCEPT !.results = @ \o more]

\* the source analysis shared by the two lint methods
lintSources(config, dir, checked) ==
  IF dir.sourceFiles = 0
  THEN addResults(checked, <<LintResult("has-source-files", "error")>>)
  ELSE LET entry == IF dir.entryIsSource THEN checked
                    ELSE addResults(checked, <<LintResult("entry-point-exists", "warning")>>)
           src == sourceChecks(config, dir)
       IN applyWarningsAsErrors(config,
            [results |-> entry.results \o src.results, ran |-> entry.ran \cup src.ran])

\* cli.ts: lintManifestOnly
lintManifestOnly(config, dir) ==
  IF dir.location = "none" THEN InvalidManifest
  ELSE IF ~loadManifestFromPath(dir) THEN InvalidManifest
  ELSE LET checked == manifestChecks(config, dir)
           entry == IF config.checkCompiledEntry /\ ~dir.entryExists
                    THEN addResults(checked, <<LintResult("entry-point-exists", "error")>>)
                    ELSE checked
       IN applyWarningsAsErrors(config, entry)

\* cli.ts: lint
lint(config, dir) ==
  IF dir.location = "none" THEN InvalidManifest
  ELSE IF ~loadManifestFromPath(dir) THEN InvalidManifest
  ELSE LET checked == manifestChecks(config, dir)
       IN IF dir.location = "python"
          THEN applyWarningsAsErrors(config,
                 IF dir.entryExists THEN checked
                 ELSE addResults(checked, <<LintResult("entry-point-exists", "error")>>))
          ELSE lintSources(config, dir, checked)

\* linter.ts: lintManifestOnly
linter_lintManifestOnly(config, dir) ==
  IF ~loadManifest(dir) THEN InvalidManifest
  ELSE applyWarningsAsErrors(config, manifestChecks(config, dir))

\* linter.ts: lint
linter_lint(config, dir) ==
  IF ~loadManifest(dir) THEN InvalidManifest
  ELSE lintSources(config, dir, manifestChecks(config, dir))

NoTrik == [config |-> [warningsAsErrors |-> FALSE, checkCompiledEntry |-> FALSE, skipRules |-> {}],
           dir |-> [location |-> "none", content |-> NoManifest, optional |-> {},
                    entryExists |-> FALSE, sourceFiles |-> 0, entryIsSource |-> FALSE,
                    findings |-> Findings(<<>>)]]
NotLinted == [by |-> "none", results |-> <<>>, ran |-> {}]
Returned(by, out) == [by |-> by, results |-> out.results, ran |-> out.ran]

Lint ==
  /\ lintIn # NoTrik
  /\ lintOut = NotLinted
  /\ lintOut' = Returned("lint", lint(lintIn.config, lintIn.dir))
  /\ UNCHANGED lintIn
  /\ UNCHANGED notLt

LintManifestOnly ==
  /\ lintIn # NoTrik
  /\ lintOut = NotLinted
  /\ lintOut' = Returned("lintManifestOnly", lintManifestOnly(lintIn.config, lintIn.dir))
  /\ UNCHANGED lintIn
  /\ UNCHANGED notLt

LinterLint ==
  /\ lintIn # NoTrik
  /\ lintOut = NotLinted
  /\ lintOut' = Returned("linter.lint", linter_lint(lintIn.config, lintIn.dir))
  /\ UNCHANGED lintIn
  /\ UNCHANGED notLt

LinterLintManifestOnly ==
  /\ lintIn # NoTrik
  /\ lintOut = NotLinted
  /\ lintOut' = Returned("linter.lintManifestOnly",
                         linter_lintManifestOnly(lintIn.config, lintIn.dir))
  /\ UNCHANGED lintIn
  /\ UNCHANGED notLt

LtNext ==
  \/ Lint
  \/ LintManifestOnly
  \/ LinterLint
  \/ LinterLintManifestOnly

\* ---------------------------------------------------------------- passthrough
MaxRefs == 2         \* receipt references minted
MaxTurns == 2        \* chat() calls of one conversation
MaxToolCalls == 1    \* tool calls the decision model makes in one turn
MaxDeliveries == 2   \* deliverContent calls on one reference
Refs == 1..MaxRefs
\* the content of a passthrough payload; "" is the empty string
Contents == {"c1", "c2", ""}
Null == "null"

\* The content store of the gateway: put stores a payload under a fresh
\* reference; an entry expires when its time to live has passed.
put(store, ref, content) == store \cup {[ref |-> ref, content |-> content, expired |-> FALSE]}
expire(store, ref) ==
  {IF e.ref = ref THEN [e EXCEPT !.expired = TRUE] ELSE e : e \in store}
stored(store, ref) == {e \in store : e.ref = ref}

\* (changed) a delivery that leaves the payload in the store
deliverContentKeeps(store, ref) ==
  LET es == stored(store, ref)
  IN IF es = {} \/ (CHOOSE e \in es : TRUE).expired
     THEN [store |-> store \ es, res |-> Null]
     ELSE [store |-> store, res |-> (CHOOSE e \in es : TRUE).content]

\* gateway.deliverContent(ref): look up, remove and return the payload; null
\* when it is missing or expired
deliverContent(store, ref) ==
  LET es == stored(store, ref)
  IN IF es = {} \/ (CHOOSE e \in es : TRUE).expired
     THEN [store |-> store \ es, res |-> Null]
     ELSE [store |-> store \ es, res |-> (CHOOSE e \in es : TRUE).content]

\* the outcomes of gateway.execute: a failure, a template result, or a
\* passthrough result whose content was stored under a new reference
ExecuteOutcomes ==
  {[kind |-> "fail", content |-> ""], [kind |-> "template", content |-> ""]}
    \cup {[kind |-> "passthrough", content |-> c] : c \in Contents}

\* a delivery, as the record keeps it
Delivery(es, res) ==
  [found |-> es # {}, expired |-> es # {} /\ (CHOOSE e \in es : TRUE).expired, res |-> res]

\* The passthrough state as a record: st.store, st.issued, st.deliveries.
execute(st, outcome) ==
  IF outcome.kind = "passthrough"
  THEN LET ref == Cardinality(DOMAIN st.issued) + 1
       IN [st EXCEPT !.store = put(@, ref, outcome.content),
                     !.issued = [r \in DOMAIN @ \cup {ref} |->
                                   IF r = ref THEN outcome.content ELSE @[r]],
                     !.deliveries = [r \in DOMAIN @ \cup {ref} |->
                                       IF r = ref THEN <<>> ELSE @[r]]]
  ELSE st
deliver(st, ref) ==
  LET d == deliverContent(st.store, ref)
  IN [st EXCEPT !.store = d.store,
                !.deliveries[ref] = Append(@, Delivery(stored(st.store, ref), d.res))]

\* The JSON text a tool returns, by its members; directOutput holds the
\* _directOutput member when there is one.
ToolJson(success, response, directOutput) ==
  [success |-> success, response |-> response, directOutput |-> directOutput]

\* the tool made by createToolFromDefinition: execute, then for a passthrough
\* result deliver the content at once and return it as _directOutput
toolInvoke(st, outcome) ==
  LET s1 == execute(st, outcome)
  IN IF outcome.kind = "fail" THEN [st |-> s1, json |-> ToolJson(FALSE, "error", <<>>)]
     ELSE IF outcome.kind = "passthrough"
     THEN LET ref == Cardinality(DOMAIN s1.issued)
              s2 == deliver(s1, ref)
              res == s2.deliveries[ref][Len(s2.deliveries[ref])].res
          IN IF res = Null
             THEN [st |-> s2, json |-> ToolJson(FALSE, "Content not found or expired", <<>>)]
             ELSE [st |-> s2, json |-> ToolJson(TRUE, "Content delivered.", <<res>>)]
     ELSE [st |-> s1, json |-> ToolJson(TRUE, "rendered", <<>>)]

\* A message of the conversation: its class, what it is, and the passthrough
\* contents (other than the empty string) its text contains.
Message(type, kind, has) == [type |-> type, kind |-> kind, has |-> has]
Shown(content) == IF content = "" THEN {} ELSE {content}
JsonShows(json) == UNION {Shown(json.directOutput[i]) : i \in 1..Len(json.directOutput)}
SystemPrompt == Message("system", "systemPrompt", {})
NoResponse == <<>>

\* slice(-20)
LastTwenty(s) == IF Len(s) > 20 THEN SubSeq(s, Len(s) - 19, Len(s)) ELSE s

\* chat(), after `await this.graph.invoke(initialState)`
chatContinuation(history, g) ==
  LET h1 == Append(history, Message("human", "userMessage", {}))
      h2 == IF g.response # NoResponse /\ g.response[1].text # ""
            THEN Append(h1, Message("ai", "response", g.response[1].has)) ELSE h1
  IN LastTwenty(h2)

\* what decisionModel.invoke can return: a tool call, for a tool of the list or
\* for an unknown one, or a text, which can be empty
ModelReplies ==
  {[toolCall |-> TRUE, tool |-> t, text |-> ""] : t \in {"trik", "unknown"}}
    \cup {[toolCall |-> FALSE, tool |-> "none", text |-> x] : x \in {"text", ""}}

\* decisionNode: the state update it returns
decisionNode(g, reply) ==
  IF reply.toolCall
  THEN [g EXCEPT !.messages = Append(@, Message("ai", reply.tool, {})),
                 !.nextAction = "call_trik", !.calls = @ + 1]
  ELSE [g EXCEPT !.messages = Append(@, Message("ai", "text", {})),
                 !.nextAction = "respond",
                 !.response = <<[text |-> reply.text, has |-> {}]>>]

\* executeTrikNode, after the tool call: the state update it returns
toolResult(g, json) ==
  IF json.directOutput # <<>> /\ json.directOutput[1] # ""
  THEN [g EXCEPT !.messages = Append(@, Message("tool", "toolResult", {})),
                 !.response = <<[text |-> json.directOutput[1], has |-> Shown(json.directOutput[1])]>>,
                 !.nextAction = "respond"]
  ELSE [g EXCEPT !.messages = Append(@, Message("tool", "toolResult", JsonShows(json))),
                 !.nextAction = "null"]

\* executeTrikNode: the passthrough state and the graph state it leaves
executeTrikNode(g, st, outcome) ==
  LET lastMessage == g.messages[Len(g.messages)]
  IN IF lastMessage.type # "ai" \/ lastMessage.kind \notin {"trik", "unknown"}
     THEN [st |-> st, g |-> [g EXCEPT !.nextAction = "respond"]]
     ELSE IF lastMessage.kind = "trik"
     THEN LET r == toolInvoke(st, outcome)
          IN [st |-> r.st, g |-> toolResult(g, r.json)]
     ELSE [st |-> st, g |-> toolResult(g, ToolJson(FALSE, "Unknown tool", <<>>))]

\* shouldContinue
shouldContinue(g) ==
  IF g.response # NoResponse /\ g.response[1].text # "" THEN "__end__"
  ELSE IF g.nextAction = "call_trik" THEN "executeTrik"
  ELSE IF g.nextAction = "null" THEN "decisionNode"
  ELSE "__end__"

IdleGraph == [pc |-> "idle", messages |-> <<>>, nextAction |-> "null", response |-> NoResponse,
         calls |-> 0]
AgCur == [store |-> contentStore, issued |-> issued, deliveries |-> deliveries]
AgCommit(st) ==
  /\ contentStore' = st.store
  /\ issued' = st.issued
  /\ deliveries' = st.deliveries

\* the graph moves to the node shouldContinue names; at the end chat() resumes
AgStep(g) ==
  IF shouldContinue(g) = "__end__"
  THEN /\ graph' = IdleGraph
       /\ conversationHistory' = chatContinuation(conversationHistory, g)
  ELSE /\ graph' = [g EXCEPT !.pc = shouldContinue(g)]
       /\ UNCHANGED conversationHistory

\* chat(userMessage): the graph starts at decisionNode
Chat ==
  /\ graph.pc = "idle"
  /\ turns < MaxTurns
  /\ turns' = turns + 1
  /\ graph' = [IdleGraph EXCEPT !.pc = "decisionNode",
                           !.messages = Append(conversationHistory,
                                               Message("human", "userMessage", {}))]
  /\ UNCHANGED <<contentStore, issued, deliveries, conversationHistory, lastPrompt>>
  /\ UNCHANGED notAg

DecisionNode(reply) ==
  /\ graph.pc = "decisionNode"
  /\ reply.toolCall => graph.calls < MaxToolCalls
  /\ lastPrompt' = <<SystemPrompt>> \o graph.messages
  /\ AgStep(decisionNode(graph, reply))
  /\ UNCHANGED <<contentStore, issued, deliveries, turns>>
  /\ UNCHANGED notAg

ExecuteTrikNode(outcome) ==
  /\ graph.pc = "executeTrik"
  /\ outcome.kind = "passthrough" => Cardinality(DOMAIN issued) < MaxRefs
  /\ LET r == executeTrikNode(graph, AgCur, outcome)
     IN /\ AgCommit(r.st)
        /\ AgStep(r.g)
  /\ UNCHANGED <<lastPrompt, turns>>
  /\ UNCHANGED notAg

\* a caller of the gateway other than the tool: execute with a passthrough result
Execute(content) ==
  /\ Cardinality(DOMAIN issued) < MaxRefs
  /\ AgCommit(execute(AgCur, [kind |-> "passthrough", content |-> content]))
  /\ UNCHANGED <<conversationHistory, graph, lastPrompt, turns>>
  /\ UNCHANGED notAg

\* any caller redeems a reference
DeliverContent(ref) ==
  /\ ref \in DOMAIN issued
  /\ Len(deliveries[ref]) < MaxDeliveries
  /\ AgCommit(deliver(AgCur, ref))
  /\ UNCHANGED <<conversationHistory, graph, lastPrompt, turns>>
  /\ UNCHANGED notAg

\* the time to live of a stored payload passes
Expire(ref) ==
  /\ \E e \in contentStore : e.ref = ref /\ ~e.expired
  /\ contentStore' = expire(contentStore, ref)
  /\ UNCHANGED <<issued, deliveries, conversationHistory, graph, lastPrompt, turns>>
  /\ UNCHANGED notAg

AgNext ==
  \/ Chat
  \/ \E reply \in ModelReplies : DecisionNode(reply)
  \/ \E outcome \in ExecuteOutcomes : ExecuteTrikNode(outcome)
  \/ \E content \in Contents : Execute(content)
  \/ \E ref \in Refs : DeliverContent(ref)
  \/ \E ref \in Refs : Expire(ref)

AgInit ==
  /\ contentStore = {}
  /\ issued = <<>>
  /\ deliveries = <<>>
  /\ conversationHistory = <<>>
  /\ graph = IdleGraph
  /\ lastPrompt = <<>>
  /\ turns = 0

\* ---------------------------------------------------------------- TrikServer, SkillLoader
\* One TrikServer. initialize(), start() and stop() are async: a call runs to
\* its first await in the step that makes it and is resumed, one await at a
\* time, by later steps; other calls run in between. An awaited operation of a
\* collaborator (config store, createServer, listen, close, shutdown) resolves
\* or rejects.
MaxCalls == 3        \* calls of initialize(), start() and stop() on one server
CallIds == 1..MaxCalls
NoCall == [op |-> "none", pc |-> "none", res |-> "none", made |-> 0]
Options == [skillsDirectory : BOOLEAN, configPath : BOOLEAN, lintOnLoad : BOOLEAN]
\* the constructor's defaults, with a skills directory and a config file given
DefaultOptions == [skillsDirectory |-> TRUE, configPath |-> TRUE, lintOnLoad |-> TRUE]

\* A trik on disk, by what the collaborators make of it: lint is what
\* TrikValidator.validate does with it, loads whether the gateway accepts it
\* (TrikGateway.loadTrik throws otherwise).
LintOutcomes == {"valid", "invalid", "throws"}
TrikOnDisk(id, outcome, loads) == [id |-> id, lint |-> outcome, loads |-> loads]
\* what the skills directory and the config file hold: unreadable, or triks
Unreadable == [readable |-> FALSE, triks |-> <<>>]
Holding(triks) == [readable |-> TRUE, triks |-> triks]
SkillDirs ==
  {Unreadable, Holding(<<>>)}
    \cup {Holding(<<TrikOnDisk("local", l, ok)>>) : l \in LintOutcomes, ok \in BOOLEAN}
ConfigFiles ==
  {Unreadable, Holding(<<>>)}
    \cup {Holding(<<TrikOnDisk("npm", l, ok)>>) : l \in LintOutcomes, ok \in BOOLEAN}

\* SkillLoader.loadSkill(): the status it returns
loadSkill(config, t) ==
  IF config.lintOnLoad /\ t.lint # "valid" THEN "failed"
  ELSE IF t.loads THEN "loaded" ELSE "failed"

\* TrikGateway.loadTriksFromConfig(): loads the installed packages the config
\* file lists and returns their manifests; throws when the file cannot be read
loadTriksFromConfig(file) ==
  {file.triks[i] : i \in {j \in 1..Len(file.triks) : file.triks[j].loads}}

\* SkillLoader.discoverAndLoad(): the triks it loads in the gateway and the
\* counts it returns, or threw
discoverAndLoad(config, dir, file) ==
  LET fromDir == IF config.skillsDirectory /\ dir.readable
                 THEN {dir.triks[i] : i \in 1..Len(dir.triks)} ELSE {}
      dirLoaded == {t \in fromDir : loadSkill(config, t) = "loaded"}
      cfgThrows == config.configPath /\ ~file.readable
      cfgLoaded == IF config.configPath /\ ~cfgThrows THEN loadTriksFromConfig(file) ELSE {}
  IN [threw |-> config.skillsDirectory /\ ~dir.readable /\ ~config.configPath,
      triks |-> dirLoaded \cup cfgLoaded,
      loaded |-> Cardinality(dirLoaded) + Cardinality(cfgLoaded),
      failed |-> Cardinality(fromDir \ dirLoaded) + (IF cfgThrows THEN 1 ELSE 0)]

\* the server as a record (see Cur)
TsCur ==
  [_state |-> _state, skillLoader |-> skillLoader, gateway |-> gateway, fastify |-> fastify,
   loadResult |-> loadResult, created |-> created, calls |-> calls, loaded |-> loaded]
TsCommit(s) ==
  /\ _state' = s._state
  /\ skillLoader' = s.skillLoader
  /\ gateway' = s.gateway
  /\ fastify' = s.fastify
  /\ loadResult' = s.loadResult
  /\ created' = s.created
  /\ calls' = s.calls
  /\ loaded' = s.loaded
  /\ UNCHANGED options
  /\ UNCHANGED notTs

await(s, c, op, pc) == [s EXCEPT !.calls[c] = [@ EXCEPT !.op = op, !.pc = pc]]
returns(s, c, op) == [s EXCEPT !.calls[c] = [@ EXCEPT !.op = op, !.pc = "done", !.res = "ok"]]
throws(s, c, op) == [s EXCEPT !.calls[c] = [@ EXCEPT !.op = op, !.pc = "done", !.res = "threw"]]

\* initialize() up to `await configStore.load()`: new SkillLoader(...) makes a
\* gateway of its own
initialize(s, c) ==
  IF s._state # "created" THEN throws(s, c, "initialize")
  ELSE await([s EXCEPT !.skillLoader = s.created.skillLoader + 1,
                       !.gateway = s.created.gateway + 1,
                       !.created.skillLoader = @ + 1,
                       !.created.gateway = @ + 1],
             c, "initialize", "configStore.load")

\* initialize() from one of its first two awaits on: ok says whether the
\* awaited promise resolved
initializeResume(s, c, ok) ==
  IF ~ok THEN throws(s, c, "initialize")
  ELSE IF s.calls[c].pc = "configStore.load"
  THEN \* createServer(...) builds the HTTP server
       await([s EXCEPT !.created.fastify = @ + 1, !.calls[c].made = s.created.fastify + 1],
             c, "initialize", "createServer")
  ELSE await([s EXCEPT !.fastify = s.calls[c].made], c, "initialize", "discoverAndLoad")

\* initialize() from `await this.skillLoader.discoverAndLoad()` on: dir and file
\* are what the loader found on disk
initializeLoaded(s, c, dir, file) ==
       LET r == discoverAndLoad(options, dir, file)
       IN IF r.threw THEN throws(s, c, "initialize")
          ELSE returns([s EXCEPT !.loadResult = <<[loaded |-> r.loaded, failed |-> r.failed]>>,
                                 !.loaded = @ \cup {[gateway |-> s.skillLoader, id |-> t.id,
                                                     lint |-> t.lint] : t \in r.triks},
                                 !._state = "initialized"],
                       c, "initialize")

\* start() up to `await this.fastify.listen(...)`
start_(s, c) ==
  IF s._state # "initialized" THEN throws(s, c, "start")
  ELSE IF s.fastify = 0 THEN throws(s, c, "start")
  ELSE await(s, c, "start", "listen")

\* start() after the await
startResume(s, c, ok) ==
  IF ~ok THEN throws(s, c, "start")
  ELSE returns([s EXCEPT !._state = "running"], c, "start")

\* stop() from `if (this.gateway)` on
stopGateway(s, c) ==
  IF s.gateway # 0 THEN await(s, c, "stop", "gateway.shutdown")
  ELSE returns([s EXCEPT !._state = "stopped"], c, "stop")

\* stop() up to its first await
stop(s, c) ==
  IF s._state = "stopped" THEN returns(s, c, "stop")
  ELSE IF s.fastify # 0 THEN await(s, c, "stop", "fastify.close")
  ELSE stopGateway(s, c)

\* stop() from an await on
stopResume(s, c, ok) ==
  IF ~ok THEN throws(s, c, "stop")
  ELSE IF s.calls[c].pc = "fastify.close" THEN stopGateway(s, c)
  ELSE returns([s EXCEPT !._state = "stopped"], c, "stop")

Initialize(c) ==
  /\ calls[c].op = "none"
  /\ TsCommit(initialize(TsCur, c))

InitializeResume(c) ==
  /\ calls[c].op = "initialize"
  /\ calls[c].pc \in {"configStore.load", "createServer"}
  /\ \E ok \in BOOLEAN : TsCommit(initializeResume(TsCur, c, ok))

InitializeLoaded(c) ==
  /\ calls[c].op = "initialize"
  /\ calls[c].pc = "discoverAndLoad"
  /\ \E dir \in SkillDirs, file \in ConfigFiles :
       TsCommit(initializeLoaded(TsCur, c, dir, file))

Start(c) ==
  /\ calls[c].op = "none"
  /\ TsCommit(start_(TsCur, c))

StartResume(c) ==
  /\ calls[c].op = "start"
  /\ calls[c].pc # "done"
  /\ \E ok \in BOOLEAN : TsCommit(startResume(TsCur, c, ok))

Stop(c) ==
  /\ calls[c].op = "none"
  /\ TsCommit(stop(TsCur, c))

StopResume(c) ==
  /\ calls[c].op = "stop"
  /\ calls[c].pc # "done"
  /\ \E ok \in BOOLEAN : TsCommit(stopResume(TsCur, c, ok))

TsNext ==
  \/ \E c \in CallIds : Initialize(c)
  \/ \E c \in CallIds : InitializeResume(c)
  \/ \E c \in CallIds : InitializeLoaded(c)
  \/ \E c \in CallIds : Start(c)
  \/ \E c \in CallIds : StartResume(c)
  \/ \E c \in CallIds : Stop(c)
  \/ \E c \in CallIds : StopResume(c)

\* new TrikServer(options)
TsConstructed ==
  /\ _state = "created"
  /\ skillLoader = 0
  /\ gateway = 0
  /\ fastify = 0
  /\ loadResult = <<>>
  /\ created = [skillLoader |-> 0, gateway |-> 0, fastify |-> 0]
  /\ calls = [c \in CallIds |-> NoCall]
  /\ loaded = {}

\* ---------------------------------------------------------------- MCP design tools
\* designSchema and designAction build JSON Schemas from field definitions. A
\* schema is a Node as above; an object's properties are its entries in
\* insertion order. The `required` list and the descriptions, which no check
\* reads, are left out.
MaxFields == 2       \* output fields of one design
FieldTypes == {"string", "number", "integer", "boolean", "array", "object", "date"}
FieldDefinition(name, type, values, isUserContent) ==
  [name |-> name, type |-> type, values |-> values, isUserContent |-> isUserContent]
FieldDefinitions ==
  {FieldDefinition(n, ty, v, u) :
     n \in {"template", "title"}, ty \in FieldTypes, v \in EnumKinds, u \in BOOLEAN}
FieldLists == UNION {[1..n -> FieldDefinitions] : n \in 0..MaxFields}
SchemaTypes == {"agentData", "userContent", "input"}
ResponseModes == {"template", "passthrough"}

\* fieldToJsonSchema()
fieldToJsonSchema(field, forAgentData) ==
  CASE field.type = "string" ->
         IF forAgentData
         THEN IF field.values = "nonempty"
              THEN Node(TypeOf(FALSE, {"string"}), "nonempty", "absent", "absent", "absent",
                        <<>>, <<>>, <<>>)
              ELSE Node(TypeOf(FALSE, {"string"}), "absent", "absent", "present", "absent",
                        <<>>, <<>>, <<>>)
         ELSE StringLeaf
    [] field.type \in {"number", "integer", "boolean", "object"} ->
         Container(field.type, <<>>, <<>>, <<>>)
    [] field.type = "array" -> Container("array", <<>>, <<StringLeaf>>, <<>>)
    [] OTHER ->
         Node(TypeOf(FALSE, {"string"}), "absent", "absent",
              IF forAgentData THEN "present" ELSE "absent", "absent", <<>>, <<>>, <<>>)

\* properties[name] = schema on an object with ordered entries: a name that is
\* there keeps its place and gets the new value
setProperty(properties, name, s) ==
  IF \E i \in 1..Len(properties) : properties[i].key = name
  THEN [i \in 1..Len(properties) |->
          IF properties[i].key = name THEN [key |-> name, schema |-> s] ELSE properties[i]]
  ELSE Append(properties, [key |-> name, schema |-> s])

RECURSIVE buildProperties(_, _)
buildProperties(fields, forAgentData) ==
  IF fields = <<>> THEN <<>>
  ELSE LET field == fields[Len(fields)]
       IN setProperty(buildProperties(SubSeq(fields, 1, Len(fields) - 1), forAgentData),
                      field.name, fieldToJsonSchema(field, forAgentData))

\* buildSchema()
buildSchema(fields, schemaType) ==
  Container("object", buildProperties(fields, schemaType = "agentData"), <<>>, <<>>)

\* checkAgentDataSecurity(): the names of the properties it notes
checkAgentDataSecurity(s) ==
  {s.properties[i].key :
     i \in {j \in 1..Len(s.properties) :
              LET propSchema == s.properties[j].schema
              IN /\ ~propSchema.type.isArray
                 /\ propSchema.type.names = {"string"}
                 /\ propSchema.enum # "nonempty"
                 /\ propSchema.const = "absent"
                 /\ propSchema.pattern # "present"
                 /\ ~(propSchema.format # "absent"
                        /\ propSchema.format \in ALLOWED_AGENT_STRING_FORMATS)}}

\* designSchema(): the agentData schema it returns, if the schema is one
designSchema(fields, schemaType) ==
  [tool |-> "designSchema",
   agentDataSchema |-> IF schemaType = "agentData"
                       THEN <<buildSchema(fields, schemaType)>> ELSE <<>>,
   securityNotes |-> IF schemaType = "agentData"
                     THEN checkAgentDataSecurity(buildSchema(fields, schemaType)) ELSE {},
   valid |-> TRUE]

\* designAction(): the agentDataSchema of its action definition, if it has one
designAction(outputFields, responseMode) ==
  LET isAgentData(f) == ~f.isUserContent
      filtered == SelectSeq(outputFields, isAgentData)
      agentDataFields ==
        IF filtered = <<>>
        THEN <<FieldDefinition("template", "string", "nonempty", FALSE)>>
        ELSE filtered
  IN IF responseMode = "template"
     THEN [tool |-> "designAction",
           agentDataSchema |-> <<buildSchema(agentDataFields, "agentData")>>,
           securityNotes |-> checkAgentDataSecurity(buildSchema(agentDataFields, "agentData")),
           valid |-> TRUE]
     ELSE [tool |-> "designAction", agentDataSchema |-> <<>>, securityNotes |-> {},
           valid |-> TRUE]

NoFields == <<>>
NotDesigned == [tool |-> "none", agentDataSchema |-> <<>>, securityNotes |-> {}, valid |-> TRUE]

DesignSchema(schemaType) ==
  /\ designOut = NotDesigned
  /\ designOut' = designSchema(designIn, schemaType)
  /\ UNCHANGED designIn
  /\ UNCHANGED notDs

DesignAction(responseMode) ==
  /\ designOut = NotDesigned
  /\ designOut' = designAction(designIn, responseMode)
  /\ UNCHANGED designIn
  /\ UNCHANGED notDs

DsNext ==
  \/ \E schemaType \in SchemaTypes : DesignSchema(schemaType)
  \/ \E responseMode \in ResponseModes : DesignAction(responseMode)

\* ---------------------------------------------------------------- initial states
ScIdle == schema = NoSchema /\ scReport = NoReport
PrIdle == msg = NoMsg /\ wire = NoWire /\ parsed = NoMsg
TpIdle == tplIn = NoTemplate /\ tplOut = NoText
MvIdle == manifest = NoManifest /\ mvReport = NoVerdicts
LtIdle == lintIn = NoTrik /\ lintOut = NotLinted
TsIdle == options = DefaultOptions /\ TsConstructed
DsIdle == designIn = NoFields /\ designOut = NotDesigned

\* field definitions of the bounded set are given to the design tools
DsInit ==
  /\ GwInit
  /\ JwInit
  /\ StInit
  /\ ScIdle
  /\ PrIdle
  /\ TpIdle
  /\ MvIdle
  /\ LtIdle
  /\ AgInit
  /\ TsIdle
  /\ designIn \in FieldLists
  /\ designOut = NotDesigned

\* a server is constructed with options of the bounded set
TsInit ==
  /\ GwInit
  /\ JwInit
  /\ StInit
  /\ ScIdle
  /\ PrIdle
  /\ TpIdle
  /\ MvIdle
  /\ LtIdle
  /\ AgInit
  /\ options \in Options
  /\ TsConstructed
  /\ DsIdle

\* a schema of the bounded set is given to the checks; the other components rest
ScInit ==
  /\ GwInit
  /\ JwInit
  /\ StInit
  /\ schema \in Schemas
  /\ scReport = NoReport
  /\ PrIdle
  /\ TpIdle
  /\ MvIdle
  /\ LtIdle
  /\ AgInit
  /\ TsIdle
  /\ DsIdle

\* a message of the bounded set is built; the other components rest
PrInit ==
  /\ GwInit
  /\ JwInit
  /\ StInit
  /\ ScIdle
  /\ msg \in Messages
  /\ wire = NoWire
  /\ parsed = NoMsg
  /\ TpIdle
  /\ MvIdle
  /\ LtIdle
  /\ AgInit
  /\ TsIdle
  /\ DsIdle

\* a template and agent data of the bounded sets are given to fillTemplate
TpInit ==
  /\ GwInit
  /\ JwInit
  /\ StInit
  /\ ScIdle
  /\ PrIdle
  /\ tplIn \in [template : Templates, data : AgentData]
  /\ tplOut = NoText
  /\ MvIdle
  /\ LtIdle
  /\ AgInit
  /\ TsIdle
  /\ DsIdle

\* a manifest of the bounded set is given to the validators
MvInit ==
  /\ GwInit
  /\ JwInit
  /\ StInit
  /\ ScIdle
  /\ PrIdle
  /\ TpIdle
  /\ manifest \in ManifestContents
  /\ mvReport = NoVerdicts
  /\ LtIdle
  /\ AgInit
  /\ TsIdle
  /\ DsIdle

\* a trik directory and a configuration of the bounded sets are given to the linter
LtInit ==
  /\ GwInit
  /\ JwInit
  /\ StInit
  /\ ScIdle
  /\ PrIdle
  /\ TpIdle
  /\ MvIdle
  /\ lintIn \in [config : LinterConfigs, dir : TrikDirs]
  /\ lintOut = NotLinted
  /\ AgInit
  /\ TsIdle
  /\ DsIdle

\* Each specification runs one component from its initial state; the others
\* stay in theirs.
Init ==
  /\ GwInit
  /\ JwInit
  /\ StInit
  /\ ScIdle
  /\ PrIdle
  /\ TpIdle
  /\ MvIdle
  /\ LtIdle
  /\ AgInit
  /\ TsIdle
  /\ DsIdle

Spec == Init /\ [][Next]_vars

\* the JavaScript worker with a gateway side that answers its storage requests;
\* the event loop runs a ready read, and the gateway side does answer
JwSpec ==
  /\ Init
  /\ [][JwNext]_vars
  /\ WF_vars(JwReadLine)
  /\ WF_vars(JwGatewayAnswer)

\* the manager under an event loop that fires every armed request timer
FairSpec == Init /\ [][Next]_vars /\ \A id \in Ids : WF_vars(RequestTimeout(id))

\* the two storage providers, called in step
StSpec == Init /\ [][StNext]_vars

\* the two security checks, run on every schema of the bounded set
ScSpec == ScInit /\ [][ScNext]_vars

\* the design tools on every list of field definitions of the bounded set
DsSpec == DsInit /\ [][DsNext]_vars

\* one TrikServer and the calls made on it
TsSpec == TsInit /\ [][TsNext]_vars

\* the agent's conversation, with other callers of the gateway's passthrough API
AgSpec == Init /\ [][AgNext]_vars

\* the round trip of every message of the bounded set
PrSpec == PrInit /\ [][PrNext]_vars

\* fillTemplate on every template and agent data of the bounded sets
TpSpec == TpInit /\ [][TpNext]_vars

\* the two validators on every manifest of the bounded set
MvSpec == MvInit /\ [][MvNext]_vars

\* one call of a lint method on every trik directory and configuration of the bounded sets
LtSpec == LtInit /\ [][LtNext]_vars

\* ---------------------------------------------------------------- properties
\* steps, recognised by what they change
HandleLineStep == Len(stdout') < Len(stdout)
ExitStep == child = "dead" /\ child' = "exited"
InvokeStep(c) == callers[c].pc = "idle" /\ callers'[c].pc # "idle"
ShutdownReturns == sd.pc # "returned" /\ sd'.pc = "returned"
\* the requests whose promise the step settles, the entries it removes
SettledByStep == {i \in Ids : req[i].state = "pending" /\ req'[i].state # "pending"}
RemovedByStep == pendingRequests \ pendingRequests'
Settled(i) == req[i].state \notin {"none", "pending"}

\* C1: every response line either carries the id of a request still in the
\* table, and then settles exactly that request and removes only that entry, or
\* it is dropped with a parse-error diagnostic and settles nothing.
C1_ResponseSettlesPendingOrParseError ==
  [][(HandleLineStep /\ isResponse(Head(stdout)))
       => \/ /\ Head(stdout).id \in pendingRequests
             /\ SettledByStep = {Head(stdout).id}
             /\ RemovedByStep = {Head(stdout).id}
          \/ /\ "parse-error" \in last'.ev
             /\ SettledByStep = {}
             /\ RemovedByStep = {}]_vars

\* C2: when the worker process exits, every request pending at that moment is
\* failed with the exit error, the table is left empty and the ready flag is false.
C2_ExitFailsAllPending ==
  [][ExitStep => /\ \A id \in pendingRequests : req'[id].state = "exit"
                 /\ pendingRequests' = {}
                 /\ ~isReady']_vars
C2_Witness ==
  /\ child = "exited"
  /\ "exit" \in last.ev
  /\ \E i, j \in Ids : i # j /\ req[i].state = "exit" /\ req[j].state = "exit"

\* C3: after the worker process has exited, the next invoke spawns a new worker
\* process (and then waits for it to become ready before it sends the request).
C3_InvokeAfterExitRespawns ==
  [][\A c \in Callers : (InvokeStep(c) /\ child = "exited")
        => /\ process' # NoProc
           /\ child' \in {"running", "failed"}
           /\ callers'[c].pc = "awaitStart"]_vars

\* C4: a storage.* request received while an invoke is outstanding is answered
\* with the operation's result (an error only when the storage operation fails;
\* the manager consults no storage handle, so no operation of the model fails).
C4_StorageRequestAnsweredWithResult ==
  ("storage-request" \in last.ev /\ process # NoProc)
    => \E r \in last.sent : r.kind = "result"

\* C5: in the JavaScript worker an invoke whose trik awaits a storage call
\* eventually gets its response written.
C5_StorageInvokeReturns ==
  \A i \in JwIds : (trik.id = i /\ trik.phase = "awaitStorage") ~> (\E r \in jwOut : r.id = i)

\* C6: an invoke issued while the startup is in progress waits for that startup;
\* it does not fail because a start is already in progress.
C6_InvokeDuringStartupWaits ==
  [][\A c \in Callers : (InvokeStep(c) /\ startupPromise = "pending")
        => /\ callers'[c].res # "alreadyStarted"
           /\ callers'[c].pc = "awaitStart"]_vars

\* C7: every request entered in the table is eventually removed from it, and a
\* request is out of the table exactly when its completion has been settled;
\* a settled completion never changes again.
C7_PendingEventuallySettledOnce ==
  /\ [](\A id \in Ids : (id \in pendingRequests) <=> (req[id].state = "pending"))
  /\ [][\A id \in Ids : Settled(id) => req'[id] = req[id]]_vars
  /\ \A id \in Ids : (id \in pendingRequests) ~> (id \notin pendingRequests /\ Settled(id))
C7_Witness ==
  /\ \E i \in Ids : req[i].state = "timeout"
  /\ \E i \in Ids : req[i].state = "exit"
  /\ \E i \in Ids : req[i].state \in {"ok", "error"}
  /\ pendingRequests = {}

\* C8: the ready flag becomes true only on a health response with status ok
\* received before the startup deadline, and then start() succeeds.
C8_ReadyOnlyOnTimelyHealthOk ==
  [][(~isReady /\ isReady')
       => /\ HandleLineStep
          /\ Head(stdout).id = HealthId
          /\ startupTimer
          /\ startupPromise' = "resolved"]_vars

\* C9: when shutdown() returns, no process is attached and the ready flag is false.
C9_ShutdownLeavesNoProcessNotReady ==
  [][ShutdownReturns => (process' = NoProc /\ ~isReady')]_vars

\* C10: a line is accepted only if it is a JSON object with jsonrpc "2.0", a
\* string id, and either a method or exactly one of result / error; any other
\* line (a line of white space aside, which is no message) is rejected with a
\* parse-error diagnostic and is not handled.
Conforming(l) ==
  /\ l.text = "object" /\ l.ver = "2.0" /\ l.idk = "str"
  /\ \/ isRequest(l)
     \/ (l.hasResult /\ ~l.hasError) \/ (~l.hasResult /\ l.hasError)
C10_NonConformingLineRejected ==
  [][(HandleLineStep /\ Head(stdout).text # "blank" /\ ~Conforming(Head(stdout)))
       => /\ "parse-error" \in last'.ev
          /\ SettledByStep = {}
          /\ RemovedByStep = {}]_vars

\* C11: a non-conforming line changes nothing: the pending-request table, the
\* ready flag and the attached process are as they were before it, a parse-error
\* diagnostic is emitted, and the line is consumed so that the next one is read.
C11_NonConformingLineChangesNothing ==
  [][(HandleLineStep /\ Head(stdout).text # "blank" /\ ~Conforming(Head(stdout)))
       => /\ pendingRequests' = pendingRequests
          /\ isReady' = isReady
          /\ process' = process
          /\ "parse-error" \in last'.ev
          /\ stdout' = Tail(stdout)]_vars

\* C12: at most one invoke request is outstanding on the worker at a time: no
\* second invoke is in the table (written to stdin) while the first is unsettled.
OutstandingInvokes == {i \in pendingRequests : req[i].method = "invoke"}
C12_OneInvokeOutstanding == Cardinality(OutstandingInvokes) <= 1

\* ---------------------------------------------------------------- properties, storage
\* The methods are functions of the store, the clock and their arguments: a
\* property of a call is stated for every call that can be made in a reachable
\* state of the two stores.
RECURSIVE SumBytes(_)
SumBytes(rows) ==
  IF rows = {} THEN 0
  ELSE LET r == CHOOSE x \in rows : TRUE IN byteLength(r.value) + SumBytes(rows \ {r})
StoredBytes(d, t) == SumBytes({r \in d : r.trik_id = t})
Passed(expiry, n) == expiry # NULL /\ expiry < n
ExpiryOf(ttl) == IF ttl # NoTtl /\ ttl > 0 THEN now + ttl ELSE NULL
RowsOf(d, t) == {r \in d : r.trik_id = t}

\* C13: in the durable store a set is rejected with the quota error exactly when
\* currentUsageBytes - oldValueBytes + newValueBytes > maxSizeBytes (UTF-8 bytes
\* of the JSON encodings), and the bytes stored for a trik never exceed maxSizeBytes.
C13_QuotaExactAndNeverExceeded ==
  /\ \A t \in Triks : StoredBytes(db, t) <= maxSizeBytes
  /\ \A t \in Triks, k \in Keys, v \in Values, ttl \in Ttls :
       LET oldBytes == SumBytes(getStmt(db, t, k))
           newBytes == byteLength(JSONstringify(v))
       IN (Sqlite_set(db, t, k, v, ttl, now).res = "quota")
            <=> (StoredBytes(db, t) - oldBytes + newBytes > maxSizeBytes)

\* C14: an entry whose expiry time has passed is never returned by get or
\* getMany and its key is never returned by list, in either store, whether or
\* not the entry is still physically there.
C14_ExpiredNeverReturned ==
  \A t \in Triks :
    LET dGone == {r.key : r \in {x \in db : x.trik_id = t /\ Passed(x.expires_at, now)}}
        mGone == {e.key : e \in {x \in mem[t] : Passed(x.expiresAt, now)}}
    IN /\ \A k \in dGone : Sqlite_get(db, t, k, now).res = {}
       /\ \A k \in mGone : InMemory_get(mem[t], k, now).res = {}
       /\ \A ks \in KeyLists(t) :
            /\ \A kv \in Sqlite_getMany(db, t, ks, now).res : kv[1] \notin dGone
            /\ \A kv \in InMemory_getMany(mem[t], ks, now).res : kv[1] \notin mGone
       /\ \A prefix \in Prefixes :
            /\ Sqlite_list(db, t, prefix, now).res \cap dGone = {}
            /\ InMemory_list(mem[t], prefix).res \cap mGone = {}

\* C15: get at the very instant now = expiresAt returns null, in either store.
C15_GetAtExpiryInstantIsNull ==
  \A t \in Triks, k \in Keys :
    /\ (\E r \in getStmt(db, t, k) : r.expires_at = now) => Sqlite_get(db, t, k, now).res = {}
    /\ (\E e \in memEntry(mem[t], k) : e.expiresAt = now)
         => InMemory_get(mem[t], k, now).res = {}

\* C16: list(prefix) on the durable store returns exactly the trik's (unexpired)
\* keys whose text begins with prefix, character for character.
C16_ListPrefixIsLiteral ==
  \A t \in Triks, prefix \in Prefixes :
    Sqlite_list(db, t, prefix, now).res
      = {k \in listStmt(cleanupStmt(db, t, now), t) : startsWith(k, prefix)}

\* C17: after the same calls with the same arguments at the same times, every
\* call returns from the in-memory store what it returns from the durable
\* store, quota errors included.
C17_InMemoryEqualsDurable ==
  \A t \in Triks :
    /\ \A k \in Keys :
         /\ Sqlite_get(db, t, k, now).res = InMemory_get(mem[t], k, now).res
         /\ Sqlite_delete(db, t, k).res = InMemory_delete(mem[t], k).res
         /\ \A v \in Values, ttl \in Ttls :
              Sqlite_set(db, t, k, v, ttl, now).res = InMemory_set(mem[t], k, v, ttl, now).res
    /\ \A prefix \in Prefixes :
         Sqlite_list(db, t, prefix, now).res = InMemory_list(mem[t], prefix).res
    /\ \A ks \in KeyLists(t) :
         Sqlite_getMany(db, t, ks, now).res = InMemory_getMany(mem[t], ks, now).res
    /\ \A entries \in EntryLists(t) :
         Sqlite_setMany(db, t, entries, now).res = InMemory_setMany(mem[t], entries).res

\* C18: a storage call made through the handle of trik T leaves the entries of
\* every other trik as they were and returns only values and keys of entries
\* of T; a step changes the entries of one trik at most, in either store.
OthersKept(t, d) == \A u \in Triks \ {t} : RowsOf(d, u) = RowsOf(db, u)
C18_OnlyOwnTrik ==
  /\ [](\A t \in Triks :
          /\ \A k \in Keys :
               /\ OthersKept(t, Sqlite_get(db, t, k, now).db)
               /\ OthersKept(t, Sqlite_delete(db, t, k).db)
               /\ \A v \in Values, ttl \in Ttls : OthersKept(t, Sqlite_set(db, t, k, v, ttl, now).db)
               /\ Sqlite_get(db, t, k, now).res
                    \subseteq {JSONparse(r.value) : r \in getStmt(db, t, k)}
               /\ InMemory_get(mem[t], k, now).res
                    \subseteq {e.value : e \in memEntry(mem[t], k)}
          /\ \A prefix \in Prefixes :
               /\ OthersKept(t, Sqlite_list(db, t, prefix, now).db)
               /\ Sqlite_list(db, t, prefix, now).res \subseteq {r.key : r \in RowsOf(db, t)}
               /\ InMemory_list(mem[t], prefix).res \subseteq {e.key : e \in mem[t]}
          /\ \A ks \in KeyLists(t) :
               /\ OthersKept(t, Sqlite_getMany(db, t, ks, now).db)
               /\ Sqlite_getMany(db, t, ks, now).res
                    \subseteq {<<r.key, JSONparse(r.value)>> : r \in RowsOf(db, t)}
               /\ InMemory_getMany(mem[t], ks, now).res
                    \subseteq {<<e.key, e.value>> : e \in mem[t]}
          /\ \A entries \in EntryLists(t) :
               OthersKept(t, Sqlite_setMany(db, t, entries, now).db))
  /\ [][Cardinality({u \in Triks : RowsOf(db', u) # RowsOf(db, u) \/ mem'[u] # mem[u]}) <= 1]_vars
\* both triks hold an entry under the same key, with different values, in both
\* stores; the second trik's entry has expired and is still there after the
\* first trik's entry was set
C18_Witness ==
  /\ \E r \in RowsOf(db, "t2"), x \in RowsOf(db, "t1") :
       /\ Passed(r.expires_at, now)
       /\ x.key = r.key /\ x.value # r.value
       /\ x.expires_at # NULL /\ ~Passed(x.expires_at, now)
  /\ \E e \in mem["t2"], x \in mem["t1"] : x.key = e.key /\ x.value # e.value

\* C19: set calls on the same (trik, key) are atomic, last writer wins: after a
\* set the entry holds the value and the expiry of that call and nothing of the
\* entry it replaces, and no other entry is written by it.
C19_SetIsAtomicLastWriterWins ==
  \A t \in Triks, k \in Keys, v \in Values, ttl \in Ttls :
    LET d == Sqlite_set(db, t, k, v, ttl, now)
        m == InMemory_set(mem[t], k, v, ttl, now)
    IN /\ d.res = "ok"
            => /\ getStmt(d.db, t, k) = {[trik_id |-> t, key |-> k, value |-> JSONstringify(v),
                                          expires_at |-> ExpiryOf(ttl)]}
               /\ d.db \ getStmt(d.db, t, k) = db \ getStmt(db, t, k)
       /\ memEntry(m.ts, k) = {[key |-> k, value |-> v, expiresAt |-> ExpiryOf(ttl)]}
       /\ m.ts \ memEntry(m.ts, k) = mem[t] \ memEntry(mem[t], k)
\* a set has replaced an entry written by an earlier set with another value and
\* another expiry, in both stores
C19_Witness == stReplaced

\* ---------------------------------------------------------------- properties, security checks
\* the nodes of a schema reachable through properties, items and $defs
RECURSIVE Reachable(_, _)
Reachable(s, path) ==
  {[path |-> path, node |-> s]}
    \cup UNION {Reachable(s.properties[i].schema, path \o <<s.properties[i].key>>) :
                  i \in 1..Len(s.properties)}
    \cup UNION {Reachable(s.items[i], path \o <<"[]">>) : i \in 1..Len(s.items)}
    \cup UNION {Reachable(s.defs[i].schema, path \o <<"$defs", s.defs[i].key>>) :
                  i \in 1..Len(s.defs)}
SafeFormats == {"id", "date", "date-time", "time", "uuid", "email", "uri", "url"}
ConstrainedString(n) ==
  n.enum = "nonempty" \/ n.const # "absent" \/ n.pattern = "present" \/ n.format \in SafeFormats
UnconstrainedStrings(s) ==
  {r.path : r \in {x \in Reachable(s, <<>>) :
                     "string" \in x.node.type.names /\ ~ConstrainedString(x.node)}}

\* C20: a security check reports every reachable node whose type is "string",
\* or an array containing "string", and that has no non-empty enum, const,
\* pattern or safe format; so it passes a schema only if there is no such node.
C20_EveryUnconstrainedStringReported ==
  /\ scReport.manifestDone => UnconstrainedStrings(schema) \subseteq scReport.manifest
  /\ scReport.mcpDone => UnconstrainedStrings(schema) \subseteq scReport.mcp

\* C29: whenever the ready flag is true a worker process is attached; no
\* interleaving of startup, health response, startup deadline, kill() and exit
\* reaches a state with the flag true and no process.
C29_ReadyImpliesProcessAttached == isReady => process # NoProc

\* C30: whenever start() fails (its promise is rejected: spawn error, health
\* error or bad status, startup deadline) no worker process is left attached.
C30_FailedStartLeavesNoProcess ==
  [][(startupPromise = "pending" /\ startupPromise' = "rejected")
       => process' = NoProc]_vars

\* C28: for every message m built by createRequest, createSuccessResponse or
\* createErrorResponse, parseMessage(serializeMessage(m)) equals m and is a
\* request exactly when m is one and a response exactly when m is one, whatever
\* the result value is.
C28_RoundTripKeepsMessageAndKind ==
  (parsed # NoMsg)
    => /\ toEqual(parsed, msg)
       /\ Msg_isRequest(parsed) = Msg_isRequest(msg)
       /\ Msg_isResponse(parsed) = Msg_isResponse(msg)

\* C25: template rendering replaces each {{name}} by String(agentData[name])
\* when agentData has the field name, and leaves the placeholder literally in
\* place when the field is absent.
C25_PlaceholderReplacedOrKept ==
  (tplOut # NoText)
    => \A i \in 1..Len(tplIn.template) :
         LET p == tplIn.template[i]
         IN p.kind = "braces"
              => IF p.name \in DOMAIN tplIn.data
                 THEN tplOut[i] = String(tplIn.data[p.name])
                 ELSE tplOut[i] = p

\* the actions of the manifest under validation
ManifestActions ==
  IF manifest.value.actions = <<>> THEN {}
  ELSE {manifest.value.actions[1][i].action : i \in 1..Len(manifest.value.actions[1])}
\* the response templates of an action
TemplatesOf(a) ==
  IF a.responseTemplates = <<>> THEN {}
  ELSE {a.responseTemplates[1][i].def : i \in 1..Len(a.responseTemplates[1])}
\* the action breaks the agreement of mode and schema
BreaksModeAgreement(a) ==
  \/ a.responseMode = "template" /\ (a.agentDataSchema = <<>> \/ TemplatesOf(a) = {})
  \/ a.responseMode = "passthrough" /\ ~a.userContentSchema

\* C21: structural validation refuses every manifest that contains a
\* template-mode action without agentDataSchema or without at least one response
\* template, and every manifest that contains a passthrough-mode action without
\* userContentSchema.
C21_ModeSchemaViolationRefused ==
  (mvReport.structural.done /\ \E a \in ManifestActions : BreaksModeAgreement(a))
    => ~mvReport.structural.valid

\* the names between double braces in a template text
PlaceholderNames(d) ==
  {d.text[i].name : i \in {j \in 1..Len(d.text) : d.text[j].kind = "braces" /\ d.text[j].word}}
\* the keys of the action's agentDataSchema.properties
DeclaredFields(a) ==
  IF a.agentDataSchema = <<>> THEN {}
  ELSE {a.agentDataSchema[1].properties[i].key : i \in 1..Len(a.agentDataSchema[1].properties)}

\* C22: a manifest is reported valid only if every {{name}} placeholder in every
\* response template text of every template-mode action names a key of that
\* action's agentDataSchema.properties.
C22_ValidOnlyIfPlaceholdersDeclared ==
  (mvReport.mcp.done /\ mvReport.mcp.valid)
    => \A a \in ManifestActions :
         a.responseMode = "template"
           => \A d \in TemplatesOf(a) : PlaceholderNames(d) \subseteq DeclaredFields(a)

\* a manifest reported valid whose template-mode action has two templates with
\* placeholders
C22_Witness ==
  /\ mvReport.mcp.done
  /\ mvReport.mcp.valid
  /\ \E a \in ManifestActions :
       /\ a.responseMode = "template"
       /\ Len(a.responseTemplates[1]) = 2
       /\ \A d \in TemplatesOf(a) : PlaceholderNames(d) # {}

\* the manifest of the linted directory is missing, or is not JSON, or fails
\* structural validation
ManifestMissingOrInvalid ==
  \/ lintIn.dir.location = "none"
  \/ (lintOut.by \in {"linter.lint", "linter.lintManifestOnly"} /\ lintIn.dir.location # "node")
  \/ ~lintIn.dir.content.json
  \/ ~manifestSchema(lintIn.dir.content.value)

\* C23: when the manifest is missing or fails structural validation, the linter
\* returns exactly one diagnostic, of rule valid-manifest and severity error,
\* and runs no security, completeness or source rule.
C23_InvalidManifestShortCircuits ==
  (lintOut.by # "none" /\ ManifestMissingOrInvalid)
    => /\ lintOut.results = <<LintResult("valid-manifest", "error")>>
       /\ lintOut.ran = {}

\* lint() has returned for a directory whose manifest is found and is JSON but
\* fails structural validation, with findings the rules would have reported
C23_Witness ==
  /\ lintOut.by = "lint"
  /\ lintIn.dir.location = "node"
  /\ lintIn.dir.content.json
  /\ ~manifestSchema(lintIn.dir.content.value)
  /\ lintIn.dir.sourceFiles > 0
  /\ lintIn.dir.findings # Findings(<<>>)

\* C24: with warningsAsErrors enabled, no diagnostic returned by lint() or
\* lintManifestOnly() has severity warning, on every return path.
C24_NoWarningWithWarningsAsErrors ==
  (lintOut.by # "none" /\ lintIn.config.warningsAsErrors)
    => \A i \in 1..Len(lintOut.results) : lintOut.results[i].severity # "warning"

\* C26: the content of a passthrough result never reaches the agent's model: no
\* message passed to the decision model, in the turn that produced the content
\* or in any later turn of the conversation, contains delivered passthrough
\* content.
C26_PassthroughNeverReachesModel ==
  \A i \in 1..Len(lastPrompt) : lastPrompt[i].has = {}

\* C27: for every successful passthrough invocation with content c, the first
\* deliverContent(ref) returns c and every later deliverContent(ref) for the
\* same ref returns null.
C27_FirstDeliveryReturnsContent ==
  \A ref \in DOMAIN issued :
    \A i \in 1..Len(deliveries[ref]) :
      deliveries[ref][i].res = IF i = 1 THEN issued[ref] ELSE Null

\* C27, amended: the first deliverContent(ref) returns c when the payload has
\* not expired by then and null when it has; every later deliverContent(ref)
\* returns null.
C27_FirstUnexpiredDeliveryReturnsContent ==
  \A ref \in DOMAIN issued :
    \A i \in 1..Len(deliveries[ref]) :
      deliveries[ref][i].res =
        IF i = 1 /\ ~deliveries[ref][i].expired THEN issued[ref] ELSE Null

\* a reference redeemed twice: the first delivery returned the content, the
\* second null
C27_Witness ==
  \E ref \in DOMAIN issued :
    /\ Len(deliveries[ref]) = 2
    /\ issued[ref] = "c1"
    /\ deliveries[ref][1].res = "c1"
    /\ deliveries[ref][2].res = Null

\* C31: every request the gateway reads from the worker, a storage.* method or
\* any other, is answered with exactly one response that carries its id.
WorkerRequestRead ==
  /\ HandleLineStep
  /\ parseMessage(Head(stdout))
  /\ ~isResponse(Head(stdout))
  /\ isRequest(Head(stdout))
C31_WorkerRequestAnsweredOnce ==
  [][WorkerRequestRead
       => Cardinality({r \in last'.sent : r.id = Head(stdout).id}) = 1]_vars

\* C32: setMany is all-or-nothing with respect to the quota: a call that
\* fails with the quota error leaves the table as it was before the call.
C32_SetManyAllOrNothing ==
  \A t \in Triks : \A entries \in EntryLists(t) :
    (Sqlite_setMany(db, t, entries, now).res = "quota")
      => Sqlite_setMany(db, t, entries, now).db = db

\* C33: once the JavaScript worker has acknowledged a shutdown request it
\* executes no further request: a line it receives afterwards is neither
\* dispatched to a trik nor answered, and the worker writes nothing more.
C33_NothingExecutedAfterShutdown ==
  [][~running => /\ ~running'
                 /\ jwOut' = jwOut
                 /\ trik' = trik
                 /\ proxyPending' = proxyPending
                 /\ jwStorage' \subseteq jwStorage]_vars
\* the shutdown request, sent first, was acknowledged; the line sent after it
\* was taken by the loop, which stopped without an answer
C33_Witness ==
  /\ ~running
  /\ loop = "stopped"
  /\ jwSent = 2
  /\ jwIn = <<>>
  /\ jwOut = {JwResponse(1, 0)}

\* C34: an invoke is answered with TRIK_NOT_FOUND only when the loader cannot
\* locate the trik's manifest or entry module; an error thrown by the trik's own
\* action code is answered with INTERNAL_ERROR.
InvokeAnswer(id, b) == handleInvoke(JwCur, id, b).jwOut \ jwOut
C34_TrikNotFoundOnlyFromLoader ==
  \A id \in JwIds : \A b \in TrikBehaviours :
    /\ (\E r \in InvokeAnswer(id, b) : r.code = TRIK_NOT_FOUND) => b = "loadNotFound"
    /\ (b \in {"throw", "throwNotFoundText"})
         => \A r \in InvokeAnswer(id, b) : r.code = INTERNAL_ERROR

\* C35: TrikServer's state changes only along created -> initialized -> running,
\* plus a change to stopped from any state; initialize() called in a state other
\* than created, and start() called in a state other than initialized, throws
\* and leaves the state as it is; stopped is terminal.
CallMade(c, op) == calls[c].op = "none" /\ calls'[c].op = op
C35_LifecycleOrder ==
  [][/\ (_state' # _state)
          => \/ <<_state, _state'>> \in {<<"created", "initialized">>, <<"initialized", "running">>}
             \/ _state' = "stopped"
     /\ (_state = "stopped") => (_state' = "stopped")
     /\ \A c \in CallIds :
          /\ (CallMade(c, "initialize") /\ _state # "created")
               => (calls'[c].res = "threw" /\ _state' = _state)
          /\ (CallMade(c, "start") /\ _state # "initialized")
               => (calls'[c].res = "threw" /\ _state' = _state)]_vars

\* C36: at most one gateway, one skill loader and one HTTP server are ever
\* created per TrikServer, however its initialize() calls overlap.
C36_OneOfEachPerServer ==
  /\ created.skillLoader <= 1
  /\ created.gateway <= 1
  /\ created.fastify <= 1

\* C37: with lintOnLoad enabled every trik loaded in the gateway has passed the
\* linter, whether it comes from the skills directory or from the config file.
C37_LoadedTriksPassedLint ==
  options.lintOnLoad => \A t \in loaded : t.lint = "valid"

\* C38: every agentData schema produced by designSchema or designAction
\* satisfies the constrained-string rule: no string-typed node of it, array
\* items and fields of unknown type included, lacks an enum, const, pattern or
\* allowed format.
C38_DesignedAgentDataConstrained ==
  \A i \in 1..Len(designOut.agentDataSchema) :
    /\ validateAgentDataSecurity(designOut.agentDataSchema[i]) = {}
    /\ mcp_findUnconstrainedStrings(designOut.agentDataSchema[i], <<>>) = {}
============================================================================
